---------------------------- MODULE Spec2Model ----------------------------
(***************************************************************************)
(* A model of navihack-atc2dialog: the content-addressed cache shared by   *)
(* the transcription stage (chainlit_bootstrap/audio.py) and the           *)
(* structured-extraction stage (chainlit_bootstrap/atc_parser.py), the     *)
(* normalisation of decoded model output, and the per-turn dispatcher of   *)
(* chainlit_bootstrap/handlers.py.                                         *)
(*                                                                         *)
(* Python values are modelled as tagged records, so that values of         *)
(* different Python types can be compared:                                 *)
(*    str   [str  |-> <<unit, ...>>]   a string is a sequence of units     *)
(*    list  [list |-> <<value, ...>>]                                      *)
(*    dict  [dict |-> function from key to value]                          *)
(*    None  [null |-> TRUE]                                                *)
(* A file is a sequence of JSON tokens; json.dump is Encode and json.load  *)
(* is the recursive-descent parser Decode.                                 *)
(***************************************************************************)
EXTENDS Naturals, Integers, Sequences, FiniteSets, TLC

(***************************************************************************)
(* Bounds of the model.                                                    *)
(***************************************************************************)
\* the longest decoded list the normalisation is applied to
MaxTurns == 2
\* the longest annotations list of a decoded turn
MaxAnns == 2
\* the number of calls of a stage one session makes, one after the other
MaxCalls == 2
\* the number of calls each of two concurrent sessions makes
ConcurrentCalls == 1
\* the number of writes in which the buffer of one put reaches its file
MaxWrites == 2
\* the number of elements attached to one chat turn
MaxElements == 2
MaxRegistrations == 3

(***************************************************************************)
(* Python / JSON values.                                                   *)
(***************************************************************************)
Str(units) == [str |-> units]
Str1(u) == [str |-> <<u>>]
List(items) == [list |-> items]
Dict(d) == [dict |-> d]
None == [null |-> TRUE]

IsStr(v) == DOMAIN v = {"str"}
IsList(v) == DOMAIN v = {"list"}
IsDict(v) == DOMAIN v = {"dict"}
IsNone(v) == DOMAIN v = {"null"}

\* the dict without any key
EmptyDict == [k \in {} |-> None]
\* d[k] = v on a Python dict
DictPut(d, k, v) == [x \in (DOMAIN d) \cup {k} |-> IF x = k THEN v ELSE d[x]]
\* k in d
HasKey(d, k) == k \in DOMAIN d

\* str.lower(), unit by unit, on the units the model uses
LowerUnit(u) ==
    CASE u = "Tower" -> "tower"
      [] u = "ATC" -> "atc"
      [] u = "Ground" -> "ground"
      [] u = "Assistant" -> "assistant"
      [] u = "List" -> "list"
      [] u = "Health" -> "health"
      [] u = "Search" -> "search"
      [] u = "Chart" -> "chart"
      [] u = "Monday" -> "monday"
      [] u = "Tuesday" -> "tuesday"
      [] u = "Wednesday" -> "wednesday"
      [] u = "November" -> "november"
      [] u = "AM" -> "am"
      [] u = "PM" -> "pm"
      [] OTHER -> u
\* a variant of Lower that leaves the case of the letters
SameCase(units) == units
\* str.lower()
Lower(units) == [i \in 1..Len(units) |-> LowerUnit(units[i])]

(***************************************************************************)
(* JSON text.  A file or a model response is a sequence of tokens: a       *)
(* punctuation token, a key token (a quoted key of an object, with its     *)
(* colon) or a unit token (a run of characters of a string literal; the    *)
(* first unit of a literal carries its opening quote and the last one its  *)
(* closing quote).  A longer string takes more room in the file.           *)
(***************************************************************************)
Punct(p) == [p |-> p]
KeyTok(k) == [k |-> k]
UnitTok(u, first, last) == [u |-> u, first |-> first, last |-> last]
LBrace == Punct("{")
RBrace == Punct("}")
LBracket == Punct("[")
RBracket == Punct("]")
\* the literal of the string without characters
EmptyStrTok == Punct("empty-string")
NullTok == Punct("null")
\* the zero bytes of a hole left by a write beyond the end of a file
HoleTok == Punct("NUL")
\* a byte that is no UTF-8
BadByteTok == Punct("0xFF")
\* a block of a file that the medium fails to read
IoErrorTok == Punct("EIO")

IsUnitTok(t) == DOMAIN t = {"u", "first", "last"}
IsKeyTok(t) == DOMAIN t = {"k"}
\* the characters [ and ] of a text: the punctuation of a list, or a unit
\* taken out of the middle of a string literal by a slice of the text
IsOpen(t) == t \in {LBracket, UnitTok("[", FALSE, FALSE)}
IsClose(t) == t \in {RBracket, UnitTok("]", FALSE, FALSE)}

\* the order in which the keys of a dict are written (Python writes them
\* in insertion order; the model fixes one order for every dict)
KeyOrder ==
    <<"transcription", "original_filename", "parsed_conversation",
      "cached_at", "role", "message", "annotations", "highlight_for_user",
      "text", "type", "note">>

RECURSIVE EncodeItems(_, _)
RECURSIVE EncodeItemsReversed(_, _)
RECURSIVE EncodeMembers(_, _)
RECURSIVE Encode(_)
\* json.dump of a value: its token sequence
Encode(v) ==
    IF IsStr(v)
    THEN IF Len(v.str) = 0 THEN <<EmptyStrTok>>
         ELSE [i \in 1..Len(v.str) |-> UnitTok(v.str[i], i = 1, i = Len(v.str))]
    ELSE IF IsList(v)
    THEN <<LBracket>> \o EncodeItems(v.list, 1) \o <<RBracket>>
    ELSE IF IsDict(v)
    THEN <<LBrace>> \o EncodeMembers(v.dict, 1) \o <<RBrace>>
    ELSE <<NullTok>>
\* a variant of EncodeItems that writes the last item first
EncodeItemsReversed(items, i) ==
    IF i > Len(items) THEN <<>>
    ELSE EncodeItemsReversed(items, i + 1) \o Encode(items[i])
EncodeItems(items, i) ==
    IF i > Len(items) THEN <<>>
    ELSE Encode(items[i]) \o EncodeItems(items, i + 1)
EncodeMembers(d, i) ==
    IF i > Len(KeyOrder) THEN <<>>
    ELSE IF HasKey(d, KeyOrder[i])
    THEN <<KeyTok(KeyOrder[i])>> \o Encode(d[KeyOrder[i]])
            \o EncodeMembers(d, i + 1)
    ELSE EncodeMembers(d, i + 1)

ParseFail == [ok |-> FALSE]
ParseOk(v, n) == [ok |-> TRUE, val |-> v, next |-> n]

RECURSIVE ParseString(_, _, _)
RECURSIVE ParseItems(_, _, _)
RECURSIVE ParseMembers(_, _, _)
RECURSIVE ParseValue(_, _)
\* the JSON value that starts at token i of toks, and where it ends
ParseValue(toks, i) ==
    IF i > Len(toks) THEN ParseFail
    ELSE IF toks[i] = EmptyStrTok THEN ParseOk(Str(<<>>), i + 1)
    ELSE IF IsUnitTok(toks[i]) /\ toks[i].first THEN ParseString(toks, i, <<>>)
    ELSE IF IsOpen(toks[i]) THEN ParseItems(toks, i + 1, <<>>)
    ELSE IF toks[i] = LBrace THEN ParseMembers(toks, i + 1, EmptyDict)
    ELSE IF toks[i] = NullTok THEN ParseOk(None, i + 1)
    ELSE ParseFail
\* the string literal whose units up to token i - 1 are acc
ParseString(toks, i, acc) ==
    IF i > Len(toks) THEN ParseFail
    ELSE IF ~IsUnitTok(toks[i]) THEN ParseFail
    ELSE IF toks[i].first # (acc = <<>>) THEN ParseFail
    ELSE IF toks[i].last THEN ParseOk(Str(Append(acc, toks[i].u)), i + 1)
    ELSE ParseString(toks, i + 1, Append(acc, toks[i].u))
ParseItems(toks, i, acc) ==
    IF i > Len(toks) THEN ParseFail
    ELSE IF IsClose(toks[i]) THEN ParseOk(List(acc), i + 1)
    ELSE LET r == ParseValue(toks, i)
         IN  IF r.ok THEN ParseItems(toks, r.next, Append(acc, r.val))
             ELSE ParseFail
ParseMembers(toks, i, acc) ==
    IF i > Len(toks) THEN ParseFail
    ELSE IF toks[i] = RBrace THEN ParseOk(Dict(acc), i + 1)
    ELSE IF IsKeyTok(toks[i])
    THEN LET r == ParseValue(toks, i + 1)
         IN  IF r.ok
             THEN ParseMembers(toks, r.next, DictPut(acc, toks[i].k, r.val))
             ELSE ParseFail
    ELSE ParseFail

\* json.load / json.loads: the value of a text that is exactly one JSON
\* value; anything else (empty, truncated, trailing data) is a
\* JSONDecodeError
Decode(toks) ==
    LET r == ParseValue(toks, 1)
    IN  IF r.ok /\ r.next = Len(toks) + 1
        THEN [ok |-> TRUE, val |-> r.val]
        ELSE [ok |-> FALSE]

(***************************************************************************)
(* Normalisation of a decoded model output, atc_parser.py lines 245-282.   *)
(* A ValueError (or an AttributeError that the enclosing try turns into a  *)
(* ValueError) is [ok |-> FALSE]; a result is [ok |-> TRUE, val |-> ...].  *)
(***************************************************************************)
Raised == [ok |-> FALSE]
Returned(v) == [ok |-> TRUE, val |-> v]

CanonicalRoles == {Str1("atc"), Str1("pilot")}
\* the lower-cased role values that are coerced to "atc"
AtcLikeRoles == {<<"atc">>, <<"controller">>, <<"tower">>, <<"ground">>}
KeptTypes == {Str1("who"), Str1("what")}

\* a variant of AnnotationKept that does not look at the type
AnnotationKeptAnyType(ann) ==
    /\ IsDict(ann)
    /\ HasKey(ann.dict, "text")
    /\ HasKey(ann.dict, "type")

\* line 269-270: the annotation is appended to valid_annotations
AnnotationKept(ann) ==
    /\ IsDict(ann)
    /\ HasKey(ann.dict, "text")
    /\ HasKey(ann.dict, "type")
    /\ ann.dict["type"] \in KeptTypes

RECURSIVE FilterWhileIterating(_)
\* a variant of FilterAnnotations that removes from the list it iterates
\* over, so that the entry after a removed one is not looked at
FilterWhileIterating(anns) ==
    IF anns = <<>> THEN <<>>
    ELSE IF AnnotationKept(Head(anns))
    THEN <<Head(anns)>> \o FilterWhileIterating(Tail(anns))
    ELSE IF Len(anns) = 1 THEN <<>>
    ELSE <<anns[2]>> \o FilterWhileIterating(Tail(Tail(anns)))

\* lines 267-279: the annotations that pass, in their order
FilterAnnotations(anns) == SelectSeq(anns, AnnotationKept)

\* lines 255-258: the role of an item after the check; a role that is
\* no string has no lower() and the call raises
NormalizeRole(role) ==
    IF role \in CanonicalRoles THEN Returned(role)
    ELSE IF ~IsStr(role) THEN Raised
    ELSE IF Lower(role.str) \in AtcLikeRoles THEN Returned(Str1("atc"))
    ELSE Returned(Str1("pilot"))

\* lines 260-282: the annotations of an item after the check
NormalizeAnnotations(d) ==
    IF HasKey(d, "annotations")
    THEN IF ~IsList(d["annotations"]) THEN List(<<>>)
         ELSE List(FilterAnnotations(d["annotations"].list))
    ELSE List(<<>>)

\* lines 251-282: one pass of the loop body over one item
NormalizeItem(item) ==
    IF ~IsDict(item) THEN Raised
    ELSE IF ~HasKey(item.dict, "role") \/ ~HasKey(item.dict, "message")
    THEN Raised
    ELSE LET r == NormalizeRole(item.dict["role"])
         IN  IF ~r.ok THEN Raised
             ELSE Returned(Dict(DictPut(DictPut(item.dict, "role", r.val),
                                "annotations", NormalizeAnnotations(item.dict))))

\* lines 245-282: the validation of a decoded value; the first item that
\* raises ends the call
Normalize(x) ==
    IF ~IsList(x) THEN Raised
    ELSE IF \E i \in 1..Len(x.list) : ~NormalizeItem(x.list[i]).ok THEN Raised
    ELSE Returned(List([i \in 1..Len(x.list) |-> NormalizeItem(x.list[i]).val]))

(***************************************************************************)
(* The inputs of the model.                                                *)
(***************************************************************************)
\* the sessions, each served by its own worker thread (cl.make_async)
Sessions == {"s1", "s2"}
\* the contents of uploaded audio files
AudioBytes == {"A", "B"}
\* the names of uploaded files; the second is longer in the cache file
FileNames == {Str1("a.mp3"), Str(<<"tower_", "rec.wav">>)}
\* what the transcription service may answer for an audio content
WhisperTexts(audio) ==
    IF audio = "A" THEN {Str(<<"a1", "a2">>), Str(<<"b1", "b2">>)}
    ELSE {Str1("c1")}
\* the transcripts handed to the extraction stage
Transcripts == {Str(<<>>), Str1(" "), Str(<<"a1", "a2">>)}

AnnWho == Dict([text |-> Str1("United 123"), type |-> Str1("who")])
AnnWhat == Dict([text |-> Str1("rolling"), type |-> Str1("what")])
AnnWhy == Dict([text |-> Str1("wind"), type |-> Str1("why")])
AnnOdd == Dict([text |-> Str1("now"), type |-> Str1("when")])
AnnNoType == Dict([text |-> Str1("rolling")])
AnnNotDict == Str1("junk")
AnnSamples == {AnnWho, AnnWhat, AnnWhy, AnnOdd, AnnNoType, AnnNotDict}

Turn(role, anns) ==
    Dict([role |-> role, message |-> Str1("msg"), annotations |-> anns])
TurnNoAnns(role) == Dict([role |-> role, message |-> Str1("msg")])
DefaultAnns == List(<<AnnWho, AnnWhy>>)

\* turns that differ in their role or shape
BasicTurns ==
    {Turn(Str1("atc"), DefaultAnns), Turn(Str1("Tower"), DefaultAnns),
     Turn(Str1("captain"), DefaultAnns), Turn(None, DefaultAnns),
     Dict([role |-> Str1("pilot")]), Str1("junk")}
\* turns that differ in their annotations
AnnLists == UNION {[1..n -> AnnSamples] : n \in 0..MaxAnns}
RichTurns ==
    {TurnNoAnns(Str1("Tower")), Turn(Str1("Tower"), Str1("none"))}
        \cup {Turn(Str1("Tower"), List(l)) : l \in AnnLists}
BasicLists == UNION {[1..n -> BasicTurns] : n \in 0..MaxTurns}
\* the decoded model outputs the normalisation is applied to: a list l of
\* basic turns, its turn i replaced by the turn t (i = 0: none replaced)
DecodedList(l, i, t) == IF i = 0 THEN List(l) ELSE List([l EXCEPT ![i] = t])
\* decoded values that are no list
DecodedOthers == {Str1("junk"), Dict([role |-> Str1("atc")])}

\* the digest of an audio content (hashlib.md5 over the bytes of the file)
ComputeFileMd5(audio) == IF audio = "A" THEN "hA" ELSE "hB"
Md5s == {ComputeFileMd5(a) : a \in AudioBytes}
\* the md5_hash argument of the extraction stage: None, or a digest
Md5Args == {"none", "hA"}

(***************************************************************************)
(* Files of the cache directory.  {md5}.json holds a transcript and        *)
(* {md5}_parsed.json a parsed conversation.  A file is a sequence of       *)
(* tokens; open(path, "w") creates it or cuts it to length zero, and a     *)
(* write replaces the tokens at the writer's own offset.                   *)
(***************************************************************************)
CacheFile(md5, kind) == [md5 |-> md5, kind |-> kind]
CacheFiles == {CacheFile(m, k) : m \in Md5s, k \in {"transcript", "parsed"}}
NoFile == [exists |-> FALSE, data |-> <<>>]
FileOf(toks) == [exists |-> TRUE, data |-> toks]
\* the key of the payload in a cache file of a kind
PayloadKey(kind) ==
    IF kind = "transcript" THEN "transcription" ELSE "parsed_conversation"

\* the tokens of a file after a write of chunk at offset off
WriteAt(data, off, chunk) ==
    LET padded == IF Len(data) < off
                  THEN data \o [i \in 1..(off - Len(data)) |-> HoleTok]
                  ELSE data
        end == off + Len(chunk)
        newLen == IF Len(padded) > end THEN Len(padded) ELSE end
    IN  [i \in 1..newLen |->
            IF i > off /\ i <= end THEN chunk[i - off] ELSE padded[i]]

\* a variant of TranscriptPayload that files the text under another key
TranscriptPayloadOtherKey(text, name) ==
    Dict([text |-> text, original_filename |-> name, cached_at |-> Str1("ts")])

\* audio.py 123-127: what _save_transcript_to_cache dumps
TranscriptPayload(text, name) ==
    Dict([transcription |-> text, original_filename |-> name,
          cached_at |-> Str1("ts")])
\* atc_parser.py 159-162: what _save_parsed_conversation_to_cache dumps
ParsedPayload(conversation) ==
    Dict([parsed_conversation |-> conversation, cached_at |-> Str1("ts")])

\* a variant of Catches: an except clause for json.JSONDecodeError only
CatchesDecodeErrorOnly(exc) == exc = "JSONDecodeError"

\* the exceptions the `except Exception` clause of a lookup catches
Catches(exc) ==
    exc \in {"OSError", "UnicodeDecodeError", "JSONDecodeError", "AttributeError"}

\* audio.py 90-109 and atc_parser.py 127-146: _get_cached_transcript and
\* _get_cached_parsed_conversation on a file of the cache directory.
\* Reading the file raises OSError on a block the medium cannot read and
\* UnicodeDecodeError on a byte that is no UTF-8,
\* json.load raises JSONDecodeError on a text that is no JSON value and
\* cache_data.get raises AttributeError when the value is no dict.
GetCached(file, kind) ==
    IF ~file.exists THEN Returned(None)
    ELSE LET d == Decode(file.data)
             exc == IF \E i \in 1..Len(file.data) : file.data[i] = IoErrorTok
                    THEN "OSError"
                    ELSE IF \E i \in 1..Len(file.data) : file.data[i] = BadByteTok
                    THEN "UnicodeDecodeError"
                    ELSE IF ~d.ok THEN "JSONDecodeError"
                    ELSE IF ~IsDict(d.val) THEN "AttributeError"
                    ELSE "none"
         IN  IF exc # "none"
             THEN IF Catches(exc) THEN Returned(None) ELSE Raised
             ELSE IF HasKey(d.val.dict, PayloadKey(kind))
             THEN Returned(d.val.dict[PayloadKey(kind)])
             ELSE Returned(None)

(***************************************************************************)
(* The response of the model and its unwrapping, atc_parser.py 227-235.    *)
(***************************************************************************)
FenceJson == Punct("fence-json")
Fence == Punct("fence")
\* three backticks, as a fence of the response or inside a string literal
IsFence(t) == t \in {Fence, FenceJson, UnitTok("fence", FALSE, FALSE)}
\* str.find: the index of the first fence, or 0 when there is none
FindJsonFence(toks) ==
    IF \E i \in 1..Len(toks) : toks[i] = FenceJson
    THEN CHOOSE i \in 1..Len(toks) :
            toks[i] = FenceJson /\ \A j \in 1..(i - 1) : toks[j] # FenceJson
    ELSE 0
FindFence(toks, from) ==
    IF \E i \in from..Len(toks) : IsFence(toks[i])
    THEN CHOOSE i \in from..Len(toks) :
            IsFence(toks[i]) /\ \A j \in from..(i - 1) : ~IsFence(toks[j])
    ELSE 0
\* text[start:end] where start is the index of the first token kept and
\* a missing closing fence gives end = -1, which drops the last token
Between(toks, start, close) ==
    IF close = 0 THEN SubSeq(toks, start, Len(toks) - 1)
    ELSE SubSeq(toks, start, close - 1)
Unwrap(toks) ==
    IF FindJsonFence(toks) # 0
    THEN Between(toks, FindJsonFence(toks) + 1,
                 FindFence(toks, FindJsonFence(toks) + 1))
    ELSE IF FindFence(toks, 1) # 0
    THEN Between(toks, FindFence(toks, 1) + 1,
                 FindFence(toks, FindFence(toks, 1) + 1))
    ELSE toks

\* a variant of DecodeAndNormalize that answers a text that cannot be
\* decoded with the empty list
DecodeOrEmpty(toks) ==
    LET d == Decode(Unwrap(toks))
    IN  IF ~d.ok THEN Returned(List(<<>>)) ELSE Normalize(d.val)

\* atc_parser.py 237-282: decoding and validation of the unwrapped text
DecodeAndNormalize(toks) ==
    LET d == Decode(Unwrap(toks))
    IN  IF ~d.ok THEN Raised ELSE Normalize(d.val)

GoodList == List(<<Turn(Str1("Tower"), DefaultAnns)>>)
OtherList == List(<<TurnNoAnns(Str1("pilot")), TurnNoAnns(Str1("atc"))>>)
\* a turn whose message quotes a fenced empty list
QuotingList ==
    List(<<Dict(DictPut(DictPut(EmptyDict, "role", Str1("atc")), "message",
                        Str(<<"x", "fence", "[", "]", "fence", "y">>)))>>)
\* a response in a language-tagged fence and in a bare fence
WrapJson(payload) == <<FenceJson>> \o payload \o <<Fence>>
WrapBare(payload) == <<Fence>> \o payload \o <<Fence>>
\* a few answers of the model: lists, a fenced list, text that is no JSON,
\* JSON that is no list, a list with a turn whose role is null
SomeResponses ==
    {Encode(GoodList), WrapJson(Encode(OtherList)),
     Encode(List(<<>>)), <<UnitTok("sorry", FALSE, FALSE)>>, Encode(Str1("junk")),
     Encode(List(<<Turn(None, DefaultAnns)>>))}
\* the texts the model may put into its answer
Payloads ==
    {Encode(GoodList), Encode(OtherList), Encode(List(<<>>)),
     <<UnitTok("sorry", FALSE, FALSE)>>, Encode(Str1("junk")),
     Encode(Dict(DictPut(EmptyDict, "role", Str1("atc")))),
     Encode(List(<<Turn(None, DefaultAnns)>>)), Encode(QuotingList)}
\* what the model may answer: a payload, bare or in a fence, or a fenced
\* payload whose closing fence is missing
LlmResponses ==
    Payloads \cup {WrapJson(p) : p \in Payloads}
             \cup {WrapBare(p) : p \in Payloads}
             \cup {<<FenceJson>> \o Encode(GoodList)}

\* not transcript or not transcript.strip()
IsBlank(transcript) == \A i \in 1..Len(transcript.str) : transcript.str[i] = " "

(***************************************************************************)
(* Text of a chat turn, handlers.py.  A text is a sequence of units; the   *)
(* unit " " is white space, and the prefixes the handlers test for are     *)
(* made of whole units.                                                    *)
(***************************************************************************)
IsWs(u) == u = " "
RECURSIVE LStrip(_)
LStrip(units) ==
    IF units # <<>> /\ IsWs(Head(units)) THEN LStrip(Tail(units)) ELSE units
RECURSIVE RStrip(_)
RStrip(units) ==
    IF units # <<>> /\ IsWs(units[Len(units)])
    THEN RStrip(SubSeq(units, 1, Len(units) - 1))
    ELSE units
\* str.strip()
Strip(units) == RStrip(LStrip(units))
\* str.startswith(prefix)
StartsWith(units, prefix) ==
    Len(units) >= Len(prefix) /\ SubSeq(units, 1, Len(prefix)) = prefix
\* the index of the first white space of units, or 0
FindWs(units) ==
    IF \E i \in 1..Len(units) : IsWs(units[i])
    THEN CHOOSE i \in 1..Len(units) :
            IsWs(units[i]) /\ \A j \in 1..(i - 1) : ~IsWs(units[j])
    ELSE 0
RECURSIVE Split(_, _)
\* str.split(maxsplit=maxsplit): the parts between runs of white space;
\* after maxsplit splits the rest is one part
Split(units, maxsplit) ==
    LET u == LStrip(units)
    IN  IF u = <<>> THEN <<>>
        ELSE IF maxsplit = 0 \/ FindWs(u) = 0 THEN <<u>>
        ELSE <<SubSeq(u, 1, FindWs(u) - 1)>>
                \o Split(SubSeq(u, FindWs(u), Len(u)), maxsplit - 1)
\* str.split()
SplitAll(units) == Split(units, Len(units))

\* a variant of NoTextContent that takes white space for text
NoContentAtAll(content) == content.str = <<>>

\* handlers.py 574, 584, 601, 609, 627: not message.content or not
\* message.content.strip()
NoTextContent(content) == content.str = <<>> \/ Strip(content.str) = <<>>

\* assistants/__init__.py 40-42: AssistantRegistry.get finds a descriptor
Registered(reg, command) == \E i \in 1..Len(reg) : reg[i].command = command

\* a variant of Assign that keeps the descriptor a command already has
AssignIfAbsent(reg, descriptor) ==
    IF Registered(reg, descriptor.command) THEN reg
    ELSE Append(reg, descriptor)

\* assistants/__init__.py 38: self._assistants[descriptor.command] =
\* descriptor; a dict keeps the place of a key that is assigned again
Assign(reg, descriptor) ==
    IF Registered(reg, descriptor.command)
    THEN [i \in 1..Len(reg) |->
            IF reg[i].command = descriptor.command THEN descriptor ELSE reg[i]]
    ELSE Append(reg, descriptor)

\* assistants/__init__.py 41-43: AssistantRegistry.get, None when absent
Get(reg, command) ==
    IF Registered(reg, command)
    THEN reg[CHOOSE i \in 1..Len(reg) : reg[i].command = command]
    ELSE None

\* a variant of ListAll that lists the last registered first
ListAllReversed(reg) == [i \in 1..Len(reg) |-> reg[Len(reg) + 1 - i]]

\* assistants/__init__.py 45-47: list(self._assistants.values())
ListAll(reg) == reg

\* handlers.py 640-647: the commands the reply to /assistant list names,
\* in the order of list_all
Listing(reg) == List([i \in 1..Len(ListAll(reg)) |-> ListAll(reg)[i].command])

\* a variant of ParseAssistantCommand that takes every text that starts
\* with /assistant for a meta-command, with or without a name
ParseAssistantCommandLoose(user_input, reg) ==
    LET trimmed == Strip(user_input)
        lower_trimmed == Lower(trimmed)
    IN  IF user_input = <<>> THEN [type |-> "none", remainder |-> <<>>]
        ELSE IF StartsWith(lower_trimmed, <<"/", "assistant">>)
        THEN IF Len(Split(trimmed, 2)) >= 2
             THEN [type |-> "switch", remainder |-> Split(trimmed, 2)[2]]
             ELSE [type |-> "switch", remainder |-> <<>>]
        ELSE [type |-> "none", remainder |-> trimmed]
\* handlers.py 312-348: _parse_assistant_command; the registry is reg
ParseAssistantCommand(user_input, reg) ==
    LET trimmed == Strip(user_input)
        lower_trimmed == Lower(trimmed)
    IN  IF user_input = <<>> THEN [type |-> "none", remainder |-> <<>>]
        ELSE IF \/ lower_trimmed = <<"/", "assistant", " ", "list">>
                \/ StartsWith(lower_trimmed, <<"/", "assistant", " ", "list", " ">>)
        THEN [type |-> "list", remainder |-> <<>>]
        ELSE IF StartsWith(lower_trimmed, <<"/", "assistant", " ">>)
        THEN IF Len(Split(trimmed, 2)) >= 2
             THEN [type |-> "switch", remainder |-> Split(trimmed, 2)[2]]
             ELSE [type |-> "switch", remainder |-> <<>>]
        ELSE IF StartsWith(trimmed, <<"/">>)
                /\ Registered(reg, Str(Tail(Split(trimmed, 1)[1])))
        THEN [type |-> "direct",
              remainder |->
                  Strip(Tail(Split(trimmed, 1)[1]) \o <<" ">>
                        \o (IF Len(Split(trimmed, 1)) > 1
                            THEN Split(trimmed, 1)[2] ELSE <<>>))]
        ELSE [type |-> "none", remainder |-> trimmed]

NoQuery == [hit |-> FALSE, query |-> <<>>]
Query(units) == [hit |-> TRUE, query |-> units]
\* a variant of ExtractSearchQuery that only knows the /search trigger
ExtractSlashSearchOnly(user_input) ==
    IF StartsWith(Lower(Strip(user_input)), <<"/", "search">>)
    THEN Query(<<>>) ELSE NoQuery
\* handlers.py 351-369: _extract_search_query
ExtractSearchQuery(user_input) ==
    LET trimmed == Strip(user_input)
        lower_trimmed == Lower(trimmed)
    IN  IF user_input = <<>> THEN NoQuery
        ELSE IF \/ StartsWith(lower_trimmed, <<"/", "search">>)
                \/ StartsWith(lower_trimmed, <<"!", "search">>)
        THEN IF Len(Split(trimmed, 1)) > 1
             THEN Query(Strip(Split(trimmed, 1)[2]))
             ELSE Query(<<>>)
        ELSE IF \E prefix \in {"search", "web", "lookup"} :
                    StartsWith(lower_trimmed, <<prefix, ":">>)
        THEN Query(Strip(SubSeq(trimmed, 3, Len(trimmed))))
        ELSE NoQuery

\* int(part): the number a part of the text stands for, or ValueError
IntOf(part) ==
    CASE part = <<"42">> -> [ok |-> TRUE, val |-> 42]
      [] part = <<"5">> -> [ok |-> TRUE, val |-> 5]
      [] OTHER -> [ok |-> FALSE]
NoChart == [hit |-> FALSE, size |-> 0]
Chart(size) == [hit |-> TRUE, size |-> size]
\* handlers.py 372-390: _parse_chart_request
ParseChartRequest(user_input) ==
    LET trimmed == Strip(user_input)
        parts == SplitAll(trimmed)
    IN  IF user_input = <<>> THEN NoChart
        ELSE IF ~StartsWith(Lower(trimmed), <<"/", "chart">>) THEN NoChart
        ELSE IF Len(parts) = 1 THEN Chart(200)
        ELSE IF ~IntOf(parts[2]).ok THEN Chart(200)
        ELSE IF IntOf(parts[2]).val > 2000 THEN Chart(2000)
        ELSE IF IntOf(parts[2]).val < 20 THEN Chart(20)
        ELSE Chart(IntOf(parts[2]).val)

\* what a branch of main did: the message it sent itself (reply), or the
\* assistant whose handle_message it called and the text it passed
\* (assistant, message); message is also the query of a search and the
\* text given to the fallback
Did(branch, active, reply, assistant, message) ==
    [branch |-> branch, active |-> active, reply |-> reply,
     assistant |-> assistant, message |-> message]

\* a variant of DirectMessage that leaves the command in the message
DirectMessageWithCommand(cmd_remainder) == Str(cmd_remainder)

\* handlers.py 675-677: assistant_message, the part of cmd_remainder after
\* the command
DirectMessage(cmd_remainder) ==
    IF Len(Split(cmd_remainder, 1)) > 1
    THEN Str(Split(cmd_remainder, 1)[2]) ELSE Str(<<>>)

\* a variant of AfterSwitch that does not look the name up
AfterSwitchUnchecked(reg, name, active) == Str(name)

\* handlers.py 661-663: the active assistant after /assistant name
AfterSwitch(reg, name, active) ==
    IF Registered(reg, Str(name)) THEN Str(name) ELSE active

\* a variant of UserContent that trims the text
UserContentTrimmed(content) ==
    IF IsNone(content) THEN Str(<<>>) ELSE Str(Strip(content.str))

\* handlers.py 635: user_content = message.content or ""
UserContent(content) == IF IsNone(content) THEN Str(<<>>) ELSE content

\* handlers.py 635-725: what main does with the text of a turn, given the
\* active assistant of the session and the registry: the branch that
\* answers, the active assistant afterwards, and what the branch did
DispatchText(content, active, reg) ==
    LET user_content == UserContent(content)
        cmd == ParseAssistantCommand(user_content.str, reg)
    IN  IF cmd.type = "list"
        THEN Did("list", active,
                 IF ListAll(reg) # <<>> THEN "available" ELSE "none registered",
                 None, Listing(reg))
        ELSE IF cmd.type = "switch"
        THEN IF cmd.remainder = <<>>
             THEN Did("switch", active, "please specify", None, None)
             ELSE Did("switch", AfterSwitch(reg, cmd.remainder, active),
                      IF Registered(reg, Str(cmd.remainder))
                      THEN "switched" ELSE "not found",
                      None, None)
        ELSE IF cmd.type = "direct"
                /\ Registered(reg, Str(Split(cmd.remainder, 1)[1]))
        THEN Did("direct", active, "response",
                 Str(Split(cmd.remainder, 1)[1]), DirectMessage(cmd.remainder))
        ELSE IF ExtractSearchQuery(user_content.str).hit
        THEN Did("search", active, "search", None,
                 Str(ExtractSearchQuery(user_content.str).query))
        ELSE IF ParseChartRequest(user_content.str).hit
        THEN Did("chart", active, "chart", None, None)
        ELSE IF active # None /\ Registered(reg, active)
        THEN Did("active", active, "response", active, user_content)
        ELSE Did("fallback", active, "chat", None, user_content)

\* the elements of a turn: an audio element, a file that is audio, a file
\* that is not, and an element that is neither (an image); raises says
\* whether its handler raises
\* a stage of the audio handler raises an exception of this type whose
\* str() is detail
StageFails(category, detail) ==
    [ok |-> FALSE, category |-> category, detail |-> detail]
\* the transcript and the conversation of the sample audio
SampleTranscript == Str1("tower")
SampleConversation == List(<<Dict([role |-> Str1("ATC"), message |-> Str1("msg")])>>)
\* an element for which transcribe_audio and parse_atc_conversation, when
\* they are called, end as transcribed and extracted say
Staged(kind, is_audio, raises, transcribed, extracted) ==
    [kind |-> kind, is_audio |-> is_audio, raises |-> raises,
     transcribed |-> transcribed, extracted |-> extracted]
\* an element whose audio is transcribed and parsed
Element(kind, is_audio, raises) ==
    Staged(kind, is_audio, raises,
           Returned(SampleTranscript), Returned(SampleConversation))
ElementSamples ==
    {Element("audio", TRUE, FALSE), Element("file", TRUE, TRUE),
     Element("file", FALSE, FALSE), Element("file", FALSE, TRUE),
     Element("image", FALSE, FALSE)}

RECURSIVE ElementsLoop(_, _, _)
\* handlers.py 561-633: the loop over message.elements from element i on:
\* whether the attachment branch ran, and whether main ended there (it
\* returned, or the handler of a file that is no audio raised)
ElementsLoop(elements, i, content) ==
    IF i > Len(elements) THEN [fired |-> <<>>, ended |-> FALSE]
    ELSE IF elements[i].kind = "audio"
            \/ (elements[i].kind = "file" /\ elements[i].is_audio)
    THEN [fired |-> <<"attachment">>, ended |-> NoTextContent(content)]
    ELSE IF elements[i].kind = "file"
    THEN [fired |-> <<"attachment">>,
          ended |-> elements[i].raises \/ NoTextContent(content)]
    ELSE ElementsLoop(elements, i + 1, content)

\* a message the user sees: what it says, and the type and the text of the
\* error it reports
UserMessage(content, category, detail) ==
    [content |-> content, category |-> category, detail |-> detail]
\* bool(value) of a string or a list
Truthy(v) == IF "str" \in DOMAIN v THEN v.str # <<>> ELSE v.list # <<>>
\* the handler without the try around parse_atc_conversation and with an
\* except that raises again
ProcessAudioFileUncaught(element) ==
    IF element.raises \/ ~element.transcribed.ok
       \/ ~element.extracted.ok
    THEN [raised |-> TRUE, success |-> FALSE,
          sent |-> IF element.raises THEN <<>>
                   ELSE <<UserMessage("processing", "none", Str(<<>>))>>]
    ELSE [raised |-> FALSE, success |-> TRUE,
          sent |-> <<UserMessage("transcribed and parsed", "none", Str(<<>>)),
                     UserMessage("dialog", "none", Str(<<>>))>>]
\* handlers.py 55-185: _process_audio_file: whether it raised, what it
\* returned and the messages the user sees after it, the progress message
\* first
ProcessAudioFile(element) ==
    IF element.raises
    THEN \* 67-68: the progress message cannot be sent
         [raised |-> TRUE, success |-> FALSE, sent |-> <<>>]
    ELSE IF ~element.transcribed.ok
    THEN \* 171-185
         [raised |-> FALSE, success |-> FALSE,
          sent |-> <<UserMessage("failed to transcribe",
                                 element.transcribed.category,
                                 element.transcribed.detail)>>]
    ELSE LET parsed == element.extracted
             parsing_error == IF parsed.ok THEN None ELSE parsed.detail
             dialog ==
                 IF parsed.ok /\ Truthy(parsed.val)
                 THEN UserMessage("dialog", "none", Str(<<>>))
                 ELSE IF parsing_error # None /\ Truthy(parsing_error)
                 THEN UserMessage("failed to parse", "none", parsing_error)
                 ELSE UserMessage("could not parse", "none", Str(<<>>))
         IN  [raised |-> FALSE, success |-> TRUE,
              sent |-> <<UserMessage("transcribed and parsed", "none", Str(<<>>)),
                         dialog>>]
\* handlers.py 561-633: the first element that main handles, 0 if none
FirstHandled(elements) ==
    IF \E i \in 1..Len(elements) : elements[i].kind \in {"audio", "file"}
    THEN CHOOSE i \in 1..Len(elements) :
            /\ elements[i].kind \in {"audio", "file"}
            /\ \A j \in 1..(i - 1) : elements[j].kind \notin {"audio", "file"}
    ELSE 0
\* the attachment handler that main calls for an element: the
\* transcription pipeline for an audio element and for a file that
\* is_audio_file takes for audio, the indexing of documents for any other
\* file
HandlerOf(element) ==
    IF element.kind = "audio" \/ element.is_audio THEN "audio" ELSE "document"
RECURSIVE HandlersRunEvery(_, _)
\* a loop without the return and the break after a handler
HandlersRunEvery(elements, i) ==
    IF i > Len(elements) THEN <<>>
    ELSE IF elements[i].kind \in {"audio", "file"}
    THEN <<[index |-> i, handler |-> HandlerOf(elements[i])]>>
             \o HandlersRunEvery(elements, i + 1)
    ELSE HandlersRunEvery(elements, i + 1)
RECURSIVE HandlersRun(_, _)
\* handlers.py 561-633: the calls of attachment handlers that the loop
\* over message.elements makes from element i on, in order: after a call,
\* whether it returned or raised, main returns (575-577, 584-585, 602-604,
\* 609-610, 626-627), leaves the loop (579, 586, 606, 611, 628) or is left
\* by the exception (615)
HandlersRun(elements, i) ==
    IF i > Len(elements) THEN <<>>
    ELSE IF elements[i].kind = "audio"
    THEN <<[index |-> i, handler |-> "audio"]>>
    ELSE IF elements[i].kind = "file"
    THEN <<[index |-> i,
            handler |-> IF elements[i].is_audio THEN "audio" ELSE "document"]>>
    ELSE HandlersRun(elements, i + 1)
NoOutcome == [sent |-> <<>>, escaped |-> FALSE, ran |-> <<>>]
\* handlers.py 566-627: what the user sees of the audio handler, and
\* whether an exception of an attachment handler leaves main: the call of
\* the audio handler stands in a try (570-586, 596-611), the call of
\* _process_file does not (615)
AttachmentOutcome(elements) ==
    LET i == FirstHandled(elements)
    IN  IF i = 0 THEN NoOutcome
        ELSE IF elements[i].kind = "audio" \/ elements[i].is_audio
        THEN [sent |-> ProcessAudioFile(elements[i]).sent, escaped |-> FALSE,
              ran |-> HandlersRun(elements, 1)]
        ELSE [sent |-> <<>>, escaped |-> elements[i].raises,
              ran |-> HandlersRun(elements, 1)]

(***************************************************************************)
(* The healthcare assistant (assistants/healthcare).                       *)
(***************************************************************************)
\* keyword in unit, for a keyword that is not the unit itself, on the
\* words the model uses
Within(keyword, unit) ==
    \/ keyword = unit
    \/ <<keyword, unit>> \in {<<"ok", "book">>, <<"am", "exam">>, <<"1", "10">>}
\* keyword in text: a keyword of one word occurs inside a word of the
\* text, a keyword of several words occurs as these words
Contains(text, keyword) ==
    IF Len(keyword) = 1
    THEN \E i \in 1..Len(text) : Within(keyword[1], text[i])
    ELSE \E i \in 1..Len(text) :
            /\ i + Len(keyword) - 1 <= Len(text)
            /\ SubSeq(text, i, i + Len(keyword) - 1) = keyword
\* any(keyword in text for keyword in keywords)
ContainsAny(text, keywords) == \E keyword \in keywords : Contains(text, keyword)

\* tools.py 6-12: get_upcoming_slots
GetUpcomingSlots ==
    <<Str(<<"Monday", " ", "10", " ", "AM">>),
      Str(<<"Tuesday", " ", "2", " ", "PM">>),
      Str(<<"Wednesday", " ", "1", " ", "PM">>)>>
\* tools.py 15-21: get_later_slots
GetLaterSlots ==
    <<Str(<<"November", " ", "3,", " ", "11:30", " ", "AM">>),
      Str(<<"November", " ", "12,", " ", "3", " ", "PM">>)>>

\* agent.py 18-21
SchedulingKeywords ==
    {<<"schedule">>, <<"appointment">>, <<"book">>, <<"appointment", " ", "time">>}
\* agent.py 25-28
LabKeywords ==
    {<<"lab", " ", "results">>, <<"test", " ", "results">>,
     <<"lab", " ", "report">>, <<"results">>}
\* agent.py 39
HumanKeywords == {<<"human">>, <<"agent">>, <<"speak", " ", "to">>, <<"talk", " ", "to">>}
\* agent.py 110
Affirmations == {<<"yes">>, <<"confirm">>, <<"sounds", " ", "good">>, <<"ok">>}
\* agent.py 118
Rejections == {<<"none">>, <<"don't", " ", "work">>, <<"not", " ", "available">>}

\* what the assistant did: its reply, the scheduling state it stored (None
\* when it stored nothing), and the slot it scheduled
Replied(reply, stored, scheduled) ==
    [reply |-> reply, stored |-> stored, scheduled |-> scheduled]
\* agent.py 97: the slot has a word that occurs in the text
SlotMatches(slot, message_lower) ==
    \E words \in {SplitAll(Lower(slot.str))} :
        \E k \in 1..Len(words) : Contains(message_lower, words[k])
\* a variant of PickedSlot that takes the last slot that matches
PickedLastSlot(upcoming_slots, message_lower) ==
    LET matching == {i \in 1..Len(upcoming_slots) :
                        SlotMatches(upcoming_slots[i], message_lower)}
    IN  IF matching # {}
        THEN upcoming_slots[CHOOSE i \in matching : \A j \in matching : i >= j]
        ELSE None
\* a variant of PickedSlot that looks for the slot among the later slots
PickedLaterSlot(upcoming_slots, message_lower) ==
    LET matching == {i \in 1..Len(GetLaterSlots) :
                        SlotMatches(GetLaterSlots[i], message_lower)}
    IN  IF matching # {}
        THEN GetLaterSlots[CHOOSE i \in matching : \A j \in matching : i <= j]
        ELSE None
\* agent.py 94-99: the first slot in the order of the offer that matches,
\* None if no slot does
PickedSlot(upcoming_slots, message_lower) ==
    LET matching == {i \in 1..Len(upcoming_slots) :
                        SlotMatches(upcoming_slots[i], message_lower)}
    IN  IF matching # {}
        THEN upcoming_slots[CHOOSE i \in matching : \A j \in matching : i <= j]
        ELSE None
\* a variant of the scheduling journey that offers the slots at once
HandleSchedulingAtOnce(user_message, stored_state) ==
    Replied("slots",
            Dict(DictPut(DictPut(DictPut(EmptyDict, "reason", Str1("general")),
                                 "slots_shown", TRUE),
                         "upcoming_slots", List(GetUpcomingSlots))),
            None)
\* agent.py 60-138: _handle_scheduling; stored_state is the value of
\* healthcare_scheduling_state in the session, None when there is none
HandleScheduling(user_message, stored_state) ==
    LET message_lower == Lower(user_message)
        scheduling_state ==
            IF stored_state = None THEN EmptyDict ELSE stored_state.dict
        upcoming_slots ==
            IF HasKey(scheduling_state, "upcoming_slots")
            THEN scheduling_state["upcoming_slots"].list ELSE <<>>
        picked_slot == PickedSlot(upcoming_slots, message_lower)
    IN  IF ~HasKey(scheduling_state, "reason")
        THEN Replied("reason prompt",
                     Dict(DictPut(scheduling_state, "reason", Str1("general"))),
                     None)
        ELSE IF ~HasKey(scheduling_state, "slots_shown")
        THEN Replied("slots",
                     Dict(DictPut(DictPut(scheduling_state, "slots_shown", TRUE),
                                  "upcoming_slots", List(GetUpcomingSlots))),
                     None)
        ELSE IF picked_slot # None
        THEN Replied("confirm this appointment",
                     Dict(DictPut(scheduling_state, "selected_slot", picked_slot)),
                     None)
        ELSE IF /\ HasKey(scheduling_state, "selected_slot")
                /\ ContainsAny(message_lower, Affirmations)
        THEN Replied("scheduled", Dict(EmptyDict), scheduling_state["selected_slot"])
        ELSE IF ContainsAny(message_lower, Rejections)
        THEN Replied("later slots",
                     Dict(DictPut(scheduling_state, "later_slots_shown", TRUE)),
                     None)
        ELSE IF HasKey(scheduling_state, "later_slots_shown")
        THEN Replied("call our office", None, None)
        ELSE Replied("which time", None, None)
\* a variant of handle_message that forgets the scheduling state when the
\* text is not about scheduling
HealthHandleMessageClearing(user_message, stored_state) ==
    IF ContainsAny(Strip(Lower(user_message)), SchedulingKeywords)
    THEN HandleScheduling(user_message, stored_state)
    ELSE Replied("help", Dict(EmptyDict), None)
\* agent.py 8-57: handle_message of the healthcare assistant
HealthHandleMessage(user_message, stored_state) ==
    LET message_lower == Strip(Lower(user_message))
    IN  IF ContainsAny(message_lower, SchedulingKeywords)
        THEN HandleScheduling(user_message, stored_state)
        ELSE IF ContainsAny(message_lower, LabKeywords)
        THEN Replied("lab results", None, None)
        ELSE IF Contains(message_lower, <<"insurance">>)
        THEN Replied("insurance", None, None)
        ELSE IF ContainsAny(message_lower, HumanKeywords)
        THEN Replied("speak with someone", None, None)
        ELSE IF Contains(message_lower, <<"urgent">>)
                \/ Contains(message_lower, <<"emergency">>)
        THEN Replied("emergency", None, None)
        ELSE Replied("help", None, None)

(***************************************************************************)
(* The state.                                                              *)
(***************************************************************************)
VARIABLES
    \* the decoded value handed to the normalisation, its result, and
    \* whether the normalisation has run
    decoded, normalized, normPc,
    \* the files of the cache directory
    files,
    \* per session: the call in progress (its position, arguments, locals)
    proc,
    \* per session: the calls that ended, in order, with what they returned
    hist,
    \* calls of the transcription service per audio content, calls of the
    \* model, and the number of audio files in the persistent store
    whisperCalls, llmCalls, audioStore,
    \* per cache file: the payloads whose write was started
    puts,
    \* the last put that a crash of the process interrupted
    crashed,
    \* the assistant registry: the descriptors in the order of their commands
    registry,
    \* the session: whether the chat has started, and its active assistant
    session,
    \* the turn that was handled last, and the branches of main that ran
    inbound, fired,
    \* what the branch for the text of that turn did
    routed,
    \* the descriptors that were registered, in the order of the calls
    registrations,
    \* what the attachment handler of that turn showed the user, and whether
    \* its exception left main
    outcome,
    \* per chat session: cl.user_session, and the step of a chat that was
    \* taken last: the session, the turn and what it was answered
    stores, said,
    \* per chat session: the steps of the scheduling dialogue that its
    \* current run has taken, a run beginning with the reason prompt
    journey

normVars == <<decoded, normalized, normPc>>
cacheVars == <<files, proc, hist, whisperCalls, llmCalls, audioStore, puts, crashed>>
dispVars == <<registry, session, inbound, fired, routed, registrations, outcome,
              stores, said, journey>>
chatVars == <<stores, said, journey>>
vars == <<decoded, normalized, normPc, files, proc, hist, whisperCalls,
          llmCalls, audioStore, puts, crashed, registry, session, inbound,
          fired, routed, registrations, outcome, stores, said, journey>>

\* the call of a session: its position, the number of calls made so far,
\* the stage, its arguments (arg is the file name of a transcription and
\* the transcript of an extraction), the digest, the value to return,
\* whether the external capability was called, whether the cache file
\* was absent at the lookup, and the state of the put in progress
IdleProc(calls) ==
    [pc |-> "idle", calls |-> calls, op |-> "none", audio |-> "none",
     arg |-> None, md5 |-> "none", value |-> None, ext |-> 0,
     cold |-> FALSE, wbuf |-> <<>>, woff |-> 0, writes |-> 0,
     before |-> NoFile, response |-> <<>>]

NotCrashed ==
    [set |-> FALSE, file |-> CacheFile("hA", "transcript"), before |-> NoFile]

\* the state of the cache part while another part of the model runs
CacheIdle ==
    /\ files = [f \in CacheFiles |-> NoFile]
    /\ proc = [s \in Sessions |-> IdleProc(MaxCalls)]
    /\ hist = [s \in Sessions |-> <<>>]
    /\ whisperCalls = [a \in AudioBytes |-> 0]
    /\ llmCalls = 0
    /\ audioStore = 0
    /\ puts = [f \in CacheFiles |-> {}]
    /\ crashed = NotCrashed

NoSession == [started |-> FALSE, active_assistant |-> None]
\* cl.user_session of a chat that has not started: no key is set
NoStore ==
    [started |-> FALSE, active_assistant |-> None,
     healthcare_scheduling_state |-> None]
\* no turn was handled
NoTurn ==
    [session |-> "none", content |-> Str(<<>>), elements |-> <<>>,
     branch |-> "none", assistant |-> "none", message |-> None,
     reply |-> "none", scheduled |-> None,
     before |-> NoStore, raised |-> FALSE]
\* the state of the chat sessions while another part of the model runs
ChatIdle ==
    /\ stores = [s \in Sessions |-> NoStore]
    /\ said = NoTurn
    /\ journey = [s \in Sessions |-> {}]
NoInbound == [handled |-> FALSE, content |-> Str(<<>>), elements |-> <<>>,
              active |-> None]

\* no branch for the text of a turn has run
NoRoute == [reply |-> "none", assistant |-> None, message |-> None]

\* the state of the dispatcher part while another part of the model runs
DispIdle ==
    /\ registry = <<>>
    /\ session = NoSession
    /\ inbound = NoInbound
    /\ fired = <<>>
    /\ routed = NoRoute
    /\ registrations = <<>>
    /\ outcome = NoOutcome
    /\ ChatIdle

\* the state of the normalisation part while another part of the model runs
NormIdle ==
    /\ decoded = List(<<>>)
    /\ normalized = Raised
    /\ normPc = "off"

(***************************************************************************)
(* The normalisation as a state machine: a decoded value is drawn, then    *)
(* the loop of atc_parser.py lines 245-282 runs over it.                   *)
(***************************************************************************)
InitNorm ==
    /\ \/ \E l \in BasicLists : \E i \in 0..Len(l) : \E t \in RichTurns :
            decoded = DecodedList(l, i, t)
       \/ decoded \in DecodedOthers
    /\ normalized = Raised
    /\ normPc = "decoded"
    /\ CacheIdle
    /\ DispIdle

NormalizeDecoded ==
    /\ normPc = "decoded"
    /\ normalized' = Normalize(decoded)
    /\ normPc' = "normalized"
    /\ UNCHANGED <<decoded, cacheVars, dispVars>>

NextNorm == NormalizeDecoded

SpecNorm == InitNorm /\ [][NextNorm]_vars

\* the normalisation has run and accepted the decoded value
NormalizedOk == normPc = "normalized" /\ normalized.ok

\* C9: normalisation is idempotent: a second run over the result of a
\* run that accepted its input accepts it and returns it unchanged.
NormalizeIdempotent ==
    NormalizedOk => Normalize(normalized.val) = Returned(normalized.val)
\* a run that changed its input (coerced a role, dropped an annotation)
NormalizeIdempotentWitness ==
    /\ NormalizedOk
    /\ normalized.val # decoded
    /\ \E i \in 1..Len(decoded.list) :
            /\ decoded.list[i].dict["role"] # normalized.val.list[i].dict["role"]
            /\ HasKey(decoded.list[i].dict, "annotations")
            /\ decoded.list[i].dict["annotations"]
                    # normalized.val.list[i].dict["annotations"]

RECURSIVE IsSubseq(_, _)
\* a is b with some of its entries left out
IsSubseq(a, b) ==
    IF a = <<>> THEN TRUE
    ELSE IF b = <<>> THEN FALSE
    ELSE IF Head(a) = Head(b) THEN IsSubseq(Tail(a), Tail(b))
    ELSE IsSubseq(a, Tail(b))

\* the annotations list of turn i of the decoded value, empty when the
\* turn has none or has a value that is no list
DecodedAnnotations(i) ==
    LET d == decoded.list[i].dict
    IN  IF HasKey(d, "annotations") /\ IsList(d["annotations"])
        THEN d["annotations"].list ELSE <<>>

\* C10: after normalisation every turn has an annotations list; it holds
\* the annotations of the decoded turn that are objects with a text and a
\* type of who or what, all of them and in their order, and nothing else
\* (none of type why or of an unknown type); a turn without annotations
\* or with annotations that are no list gets the empty list.
AnnotationsNormalized ==
    NormalizedOk =>
        \A i \in 1..Len(normalized.val.list) :
            LET out == normalized.val.list[i].dict
            IN  /\ HasKey(out, "annotations")
                /\ IsList(out["annotations"])
                /\ \A k \in 1..Len(out["annotations"].list) :
                        LET ann == out["annotations"].list[k]
                        IN  /\ IsDict(ann)
                            /\ HasKey(ann.dict, "text")
                            /\ HasKey(ann.dict, "type")
                            /\ ann.dict["type"] \in {Str1("who"), Str1("what")}
                            /\ ann.dict["type"] # Str1("why")
                /\ IsSubseq(out["annotations"].list, DecodedAnnotations(i))
                /\ Len(out["annotations"].list) =
                        Cardinality({k \in 1..Len(DecodedAnnotations(i)) :
                            LET ann == DecodedAnnotations(i)[k]
                            IN  /\ IsDict(ann)
                                /\ {"text", "type"} \subseteq DOMAIN ann.dict
                                /\ ann.dict["type"] \in {Str1("who"), Str1("what")}})
\* a turn whose annotations were who, why: the first stays, the second goes;
\* and a turn without annotations
AnnotationsNormalizedWitness ==
    /\ NormalizedOk
    /\ \E i \in 1..Len(decoded.list) :
            /\ DecodedAnnotations(i) = <<AnnWho, AnnWhy>>
            /\ normalized.val.list[i].dict["annotations"] = List(<<AnnWho>>)
    /\ \E i \in 1..Len(decoded.list) :
            /\ ~HasKey(decoded.list[i].dict, "annotations")
            /\ normalized.val.list[i].dict["annotations"] = List(<<>>)

\* every element of the decoded list is an object with a role and a message
AllTurnsHaveKeys ==
    /\ IsList(decoded)
    /\ \A i \in 1..Len(decoded.list) :
            /\ IsDict(decoded.list[i])
            /\ HasKey(decoded.list[i].dict, "role")
            /\ HasKey(decoded.list[i].dict, "message")

\* the role a turn is said to get: a canonical role is kept, a role that
\* lower-cases to atc, controller, tower or ground becomes atc, and
\* everything else becomes pilot
SaidRole(role) ==
    IF role \in CanonicalRoles THEN role
    ELSE IF IsStr(role) /\ Lower(role.str) \in AtcLikeRoles THEN Str1("atc")
    ELSE Str1("pilot")

\* C11: whatever the roles of the decoded turns are, the normalisation
\* accepts the list and every turn leaves with a canonical role: its own
\* when that was atc or pilot, atc for a controller, tower or ground role
\* in any case of letters, pilot for everything else; no role makes the
\* normalisation reject the list.
RoleCoercedNeverRejected ==
    (normPc = "normalized" /\ AllTurnsHaveKeys) =>
        /\ normalized.ok
        /\ \A i \in 1..Len(decoded.list) :
                normalized.val.list[i].dict["role"]
                    = SaidRole(decoded.list[i].dict["role"])

\* C12: a decoded value that is a list is always accepted, whatever its
\* elements are: an element that is no object, or an object without a
\* role or a message, or with a role that is no string, does not make
\* the normalisation fail.
ListAlwaysExtracts ==
    (normPc = "normalized" /\ IsList(decoded)) => normalized.ok

(***************************************************************************)
(* The stages. A call runs in a worker thread of its session, so the      *)
(* steps of two sessions interleave at every access to a shared file.      *)
(***************************************************************************)
\* a cold cache, no call in progress
InitCache ==
    /\ files = [f \in CacheFiles |-> NoFile]
    /\ proc = [s \in Sessions |-> IdleProc(0)]
    /\ hist = [s \in Sessions |-> <<>>]
    /\ whisperCalls = [a \in AudioBytes |-> 0]
    /\ llmCalls = 0
    /\ audioStore = 0
    /\ puts = [f \in CacheFiles |-> {}]
    /\ crashed = NotCrashed
    /\ NormIdle
    /\ DispIdle

\* what a call that ended leaves in the history of its session; at is
\* the position at which it ended
Entry(p, ok, value) ==
    [op |-> p.op, audio |-> p.audio, arg |-> p.arg, md5 |-> p.md5,
     ok |-> ok, value |-> value, ext |-> p.ext, cold |-> p.cold,
     at |-> p.pc, response |-> p.response]

\* the call of session s ends: it returns value, or raises when ~ok
Finish(s, p, ok, value) ==
    /\ hist' = [hist EXCEPT ![s] = Append(@, Entry(p, ok, value))]
    /\ proc' = [proc EXCEPT ![s] = IdleProc(p.calls)]

\* audio.py 153-163: transcribe_audio up to the cache lookup
TranscribeLookup(s, audio, name) ==
    /\ proc[s].pc = "idle"
    /\ LET md5 == ComputeFileMd5(audio)
           file == files[CacheFile(md5, "transcript")]
           r == GetCached(file, "transcript")
           p == [proc[s] EXCEPT !.calls = @ + 1, !.op = "transcribe",
                                !.audio = audio, !.arg = name, !.md5 = md5,
                                !.cold = ~file.exists]
       IN  IF ~r.ok THEN Finish(s, p, FALSE, None)
           ELSE IF r.val # None
           THEN /\ proc' = [proc EXCEPT ![s] = [p EXCEPT !.pc = "t_store",
                                                         !.value = r.val]]
                /\ UNCHANGED hist
           ELSE /\ proc' = [proc EXCEPT ![s] = [p EXCEPT !.pc = "t_whisper"]]
                /\ UNCHANGED hist
    /\ UNCHANGED <<files, whisperCalls, llmCalls, audioStore, puts, crashed, normVars, dispVars>>

\* a variant of TranscribeCall that copies the audio to the persistent
\* store before it calls the service and leaves the copy when the call fails
TranscribeCallAfterCopy(s, answered, text) ==
    /\ proc[s].pc = "t_whisper"
    /\ whisperCalls' = [whisperCalls EXCEPT ![proc[s].audio] = @ + 1]
    /\ audioStore' = audioStore + 1
    /\ LET p == [proc[s] EXCEPT !.ext = 1]
       IN  IF answered
           THEN /\ proc' = [proc EXCEPT ![s] = [p EXCEPT !.pc = "t_open",
                                                         !.value = text]]
                /\ UNCHANGED hist
           ELSE Finish(s, p, FALSE, None)
    /\ UNCHANGED <<files, llmCalls, puts, crashed, normVars, dispVars>>

\* audio.py 165-172: the call of the transcription service, which answers
\* with a text or fails
TranscribeCall(s, answered, text) ==
    /\ proc[s].pc = "t_whisper"
    /\ whisperCalls' = [whisperCalls EXCEPT ![proc[s].audio] = @ + 1]
    /\ LET p == [proc[s] EXCEPT !.ext = 1]
       IN  IF answered
           THEN /\ proc' = [proc EXCEPT ![s] = [p EXCEPT !.pc = "t_open",
                                                         !.value = text]]
                /\ UNCHANGED hist
           ELSE Finish(s, p, FALSE, None)
    /\ UNCHANGED <<files, llmCalls, audioStore, puts, crashed, normVars, dispVars>>

\* the cache file a put of session s writes, and what it dumps
PutFile(p) ==
    CacheFile(p.md5, IF p.op = "transcribe" THEN "transcript" ELSE "parsed")
PutPayload(p) ==
    IF p.op = "transcribe" THEN TranscriptPayload(p.value, p.arg)
    ELSE ParsedPayload(p.value)

\* audio.py 128 and atc_parser.py 163: open(cache_file, "w") creates the
\* file or cuts it to length zero; json.dump then fills the buffer
SaveOpen(s) ==
    /\ proc[s].pc \in {"t_open", "x_open"}
    /\ LET f == PutFile(proc[s])
       IN  /\ files' = [files EXCEPT ![f] = FileOf(<<>>)]
           /\ proc' = [proc EXCEPT ![s].pc = IF @ = "t_open" THEN "t_write" ELSE "x_write",
                                   ![s].wbuf = Encode(PutPayload(proc[s])),
                                   ![s].woff = 0,
                                   ![s].writes = 0,
                                   ![s].before = files[f]]
           /\ puts' = [puts EXCEPT ![f] = @ \cup {PutPayload(proc[s])}]
           /\ crashed' = IF crashed.file = f THEN NotCrashed ELSE crashed
    /\ UNCHANGED <<hist, whisperCalls, llmCalls, audioStore, normVars, dispVars>>

\* the put of session s ends without having written its payload, and the
\* call goes on after it: the transcription to the copy of the audio,
\* the extraction to its return
AfterSave(s) ==
    IF proc[s].pc = "t_open"
    THEN /\ proc' = [proc EXCEPT ![s].pc = "t_store"]
         /\ UNCHANGED hist
    ELSE Finish(s, proc[s], TRUE, proc[s].value)

\* a variant of SaveFails in which the exception of the put ends the call
SaveFailsAndRaises(s, written) ==
    /\ proc[s].pc \in {"t_open", "x_open"}
    /\ Finish(s, proc[s], FALSE, None)
    /\ UNCHANGED <<files, puts, crashed, whisperCalls, llmCalls, audioStore,
                   normVars, dispVars>>

\* audio.py 121-132 and atc_parser.py 157-167: the put fails and its
\* `except Exception` logs a warning.  written = -1: open(cache_file, "w")
\* raised and the file is as it was; otherwise the file was created or cut
\* to length zero and json.dump raised after `written` tokens
SaveFails(s, written) ==
    /\ proc[s].pc \in {"t_open", "x_open"}
    /\ written \in -1..(Len(Encode(PutPayload(proc[s]))) - 1)
    /\ LET f == PutFile(proc[s])
       IN  IF written = -1
           THEN UNCHANGED <<files, puts, crashed>>
           ELSE /\ files' = [files EXCEPT ![f] =
                        FileOf(SubSeq(Encode(PutPayload(proc[s])), 1, written))]
                /\ puts' = [puts EXCEPT ![f] = @ \cup {PutPayload(proc[s])}]
                /\ crashed' = IF crashed.file = f THEN NotCrashed ELSE crashed
    /\ AfterSave(s)
    /\ UNCHANGED <<whisperCalls, llmCalls, audioStore, normVars, dispVars>>

\* audio.py 129 and atc_parser.py 164: the buffer is flushed to the file
\* in one or more writes, the last of them when the file is closed;
\* each write puts the next n tokens at the offset of this writer, and
\* the put takes at most `most` writes
SaveWrite(s, n, most) ==
    /\ proc[s].pc \in {"t_write", "x_write"}
    /\ n \in 1..(Len(proc[s].wbuf) - proc[s].woff)
    /\ proc[s].writes + 1 < most \/ n = Len(proc[s].wbuf) - proc[s].woff
    /\ LET p == proc[s]
           f == PutFile(p)
           chunk == SubSeq(p.wbuf, p.woff + 1, p.woff + n)
       IN  /\ files' = [files EXCEPT ![f] =
                            FileOf(WriteAt(files[f].data, p.woff, chunk))]
           /\ IF p.woff + n < Len(p.wbuf)
              THEN /\ proc' = [proc EXCEPT ![s].woff = @ + n, ![s].writes = @ + 1]
                   /\ UNCHANGED hist
              ELSE IF p.pc = "t_write"
              THEN /\ proc' = [proc EXCEPT ![s].pc = "t_store"]
                   /\ UNCHANGED hist
              ELSE Finish(s, p, TRUE, p.value)
    /\ UNCHANGED <<whisperCalls, llmCalls, audioStore, puts, crashed, normVars, dispVars>>

\* audio.py 177-208: the audio is copied to the persistent store and the
\* transcript returned; a copy that fails raises, the partial copy is
\* removed and the exception is raised again
TranscribeStore(s, copied) ==
    /\ proc[s].pc = "t_store"
    /\ IF copied
       THEN /\ audioStore' = audioStore + 1
            /\ Finish(s, proc[s], TRUE, proc[s].value)
       ELSE /\ UNCHANGED audioStore
            /\ Finish(s, proc[s], FALSE, None)
    /\ UNCHANGED <<files, whisperCalls, llmCalls, puts, crashed, normVars, dispVars>>

\* atc_parser.py 187-198: parse_atc_conversation up to the cache lookup
ExtractLookup(s, transcript, md5) ==
    /\ proc[s].pc = "idle"
    /\ LET file == IF md5 = "none" THEN NoFile ELSE files[CacheFile(md5, "parsed")]
           r == GetCached(file, "parsed")
           p == [proc[s] EXCEPT !.calls = @ + 1, !.op = "extract",
                                !.arg = transcript, !.md5 = md5,
                                !.cold = ~file.exists]
       IN  IF IsBlank(transcript) THEN Finish(s, p, TRUE, List(<<>>))
           ELSE IF md5 # "none" /\ ~r.ok THEN Finish(s, p, FALSE, None)
           ELSE IF md5 # "none" /\ r.val # None THEN Finish(s, p, TRUE, r.val)
           ELSE /\ proc' = [proc EXCEPT ![s] = [p EXCEPT !.pc = "x_llm"]]
                /\ UNCHANGED hist
    /\ UNCHANGED <<files, whisperCalls, llmCalls, audioStore, puts, crashed, normVars, dispVars>>

\* atc_parser.py 202-294: the call of the model, the unwrapping, decoding
\* and validation of its response
ExtractCall(s, response) ==
    /\ proc[s].pc = "x_llm"
    /\ llmCalls' = llmCalls + 1
    /\ LET p == [proc[s] EXCEPT !.ext = 1, !.response = response]
           r == DecodeAndNormalize(response)
       IN  IF ~r.ok THEN Finish(s, p, FALSE, None)
           ELSE IF p.md5 # "none"
           THEN /\ proc' = [proc EXCEPT ![s] = [p EXCEPT !.pc = "x_open",
                                                         !.value = r.val]]
                /\ UNCHANGED hist
           ELSE Finish(s, p, TRUE, r.val)
    /\ UNCHANGED <<files, whisperCalls, audioStore, puts, crashed, normVars, dispVars>>

\* the process dies while session s is writing a cache file: every call
\* in progress ends, the files stay as they are
Crash(s) ==
    /\ proc[s].pc \in {"t_write", "x_write"}
    /\ crashed' = [set |-> TRUE, file |-> PutFile(proc[s]),
                   before |-> proc[s].before]
    /\ proc' = [t \in Sessions |-> IdleProc(proc[t].calls)]
    /\ UNCHANGED <<files, hist, whisperCalls, llmCalls, audioStore, puts, normVars, dispVars>>

\* an uploaded file: its bytes and its name
Upload(audio, name) == [audio |-> audio, name |-> name]
Uploads == {Upload(audio, name) : audio \in AudioBytes, name \in FileNames}

\* the steps of session s, which makes at most limit calls, uploads the
\* files of uploads, whose puts take at most `most` writes and whose
\* model answers with one of responses
Step(s, limit, uploads, most, responses) ==
    \/ /\ proc[s].calls < limit
       /\ \E u \in uploads : TranscribeLookup(s, u.audio, u.name)
    \/ \E text \in WhisperTexts(proc[s].audio) : TranscribeCall(s, TRUE, text)
    \/ TranscribeCall(s, FALSE, None)
    \/ SaveOpen(s)
    \/ \E n \in 1..Len(proc[s].wbuf) : SaveWrite(s, n, most)
    \/ \E copied \in BOOLEAN : TranscribeStore(s, copied)
    \/ /\ proc[s].calls < limit
       /\ \E transcript \in Transcripts, md5 \in Md5Args : ExtractLookup(s, transcript, md5)
    \/ \E response \in responses : ExtractCall(s, response)

\* one session, its calls one after the other; nothing runs between the
\* writes of a put, which is therefore taken as one write
NextSeq == Step("s1", MaxCalls, Uploads, 1, LlmResponses)
SpecSeq == InitCache /\ [][NextSeq]_vars

\* the calls of the one session that ended, oldest first
SeqHist == hist["s1"]

\* C5: when a transcription of some audio bytes that found no cache file
\* returned, a later transcription of the same bytes that returns, under
\* whatever file name, returns the same text, and the transcription
\* service was called in exactly one of the two calls (the first).
TranscribeTwiceSame ==
    \A i \in 1..Len(SeqHist) : \A j \in (i + 1)..Len(SeqHist) :
        LET a == SeqHist[i]
            b == SeqHist[j]
        IN  (/\ a.op = "transcribe" /\ b.op = "transcribe"
             /\ a.audio = b.audio
             /\ a.cold /\ a.ok /\ b.ok)
            => /\ b.value = a.value
               /\ a.ext = 1 /\ b.ext = 0
\* two transcriptions of the same bytes under different names returned
TranscribeTwiceSameWitness ==
    /\ Len(SeqHist) = 2
    /\ SeqHist[1].op = "transcribe" /\ SeqHist[2].op = "transcribe"
    /\ SeqHist[1].audio = SeqHist[2].audio
    /\ SeqHist[1].arg # SeqHist[2].arg
    /\ SeqHist[1].cold /\ SeqHist[1].ok /\ SeqHist[2].ok
    /\ SeqHist[2].value \in WhisperTexts(SeqHist[1].audio)
    /\ whisperCalls[SeqHist[1].audio] = 1

\* C8: after an extraction with a digest called the model, succeeded and
\* wrote its normalised result to the cache, a later extraction of a
\* transcript that is not blank with the same digest makes no model call
\* and returns a list equal to that result.  (A blank transcript returns
\* the empty list before the cache is looked at, lines 187-189.)
ExtractRoundTrip ==
    \A i \in 1..Len(SeqHist) : \A j \in (i + 1)..Len(SeqHist) :
        LET a == SeqHist[i]
            b == SeqHist[j]
        IN  (/\ a.op = "extract" /\ b.op = "extract"
             /\ a.md5 # "none" /\ b.md5 = a.md5
             /\ a.ok /\ a.ext = 1
             /\ ~IsBlank(b.arg))
            => /\ b.ok
               /\ b.ext = 0
               /\ b.value = a.value
\* a fresh extraction of a response with two different turns, then a hit
ExtractRoundTripWitness ==
    /\ Len(SeqHist) = 2
    /\ SeqHist[1].op = "extract" /\ SeqHist[2].op = "extract"
    /\ SeqHist[1].md5 = "hA" /\ SeqHist[2].md5 = "hA"
    /\ SeqHist[1].ok /\ SeqHist[1].ext = 1
    /\ SeqHist[2].ok /\ SeqHist[2].ext = 0
    /\ SeqHist[2].value = SeqHist[1].value
    /\ Len(SeqHist[2].value.list) = 2
    /\ SeqHist[2].value.list[1] # SeqHist[2].value.list[2]
    /\ llmCalls = 1

\* C23: a transcription whose call of the transcription service answered
\* returns the transcript, whether or not the copy of the audio to the
\* persistent store succeeded.
PersistFailureKeepsTranscript ==
    \A i \in 1..Len(SeqHist) :
        (/\ SeqHist[i].op = "transcribe"
         /\ SeqHist[i].ext = 1
         /\ SeqHist[i].at = "t_store")
        => /\ SeqHist[i].ok
           /\ SeqHist[i].value \in WhisperTexts(SeqHist[i].audio)

\* C24: when the call of the transcription service fails, the
\* transcription ends in that step by raising: it returns nothing, and
\* no cache file and no file of the persistent audio store is created or
\* changed.
TranscribeFailureLeavesNoTrace ==
    [][(proc["s1"].pc = "t_whisper" /\ proc'["s1"].pc = "idle") =>
            /\ Len(hist'["s1"]) = Len(SeqHist) + 1
            /\ ~hist'["s1"][Len(hist'["s1"])].ok
            /\ hist'["s1"][Len(hist'["s1"])].value = None
            /\ hist'["s1"][Len(hist'["s1"])].ext = 1
            /\ files' = files
            /\ puts' = puts
            /\ audioStore' = audioStore]_vars
\* the first transcription of some audio ended with the failure of the
\* service: the cache file of its digest is absent and the store is empty
TranscribeFailureLeavesNoTraceWitness ==
    /\ Len(SeqHist) = 1
    /\ SeqHist[1].op = "transcribe" /\ SeqHist[1].at = "t_whisper"
    /\ SeqHist[1].cold /\ ~SeqHist[1].ok /\ SeqHist[1].ext = 1
    /\ whisperCalls[SeqHist[1].audio] = 1
    /\ files[CacheFile(SeqHist[1].md5, "transcript")] = NoFile
    /\ audioStore = 0

\* the unwrapped response cannot be decoded, or decodes to no list
StructurallyBad(response) ==
    LET d == Decode(Unwrap(response))
    IN  ~d.ok \/ ~IsList(d.val)

\* the response that the step of the model call received
StepResponse ==
    IF proc'["s1"].pc = "idle"
    THEN hist'["s1"][Len(hist'["s1"])].response
    ELSE proc'["s1"].response

\* C13: when the unwrapped response of the model cannot be decoded or
\* decodes to something that is no list, the extraction ends in that
\* step by raising: it returns no list, whole or partial, and leaves
\* every cache file, the one of its digest included, as it was.
StructuralFailureFailsWhole ==
    [][(proc["s1"].pc = "x_llm" /\ StructurallyBad(StepResponse)) =>
            /\ proc'["s1"].pc = "idle"
            /\ Len(hist'["s1"]) = Len(SeqHist) + 1
            /\ ~hist'["s1"][Len(hist'["s1"])].ok
            /\ hist'["s1"][Len(hist'["s1"])].value = None
            /\ files' = files
            /\ puts' = puts]_vars
\* two extractions with a digest ended, one on a response that is no JSON
\* and one on JSON that is no list; the cache file of the digest is absent
StructuralFailureFailsWholeWitness ==
    /\ Len(SeqHist) = 2
    /\ \A i \in 1..2 :
            /\ SeqHist[i].op = "extract" /\ SeqHist[i].md5 = "hA"
            /\ SeqHist[i].ext = 1 /\ ~SeqHist[i].ok
            /\ SeqHist[i].value = None
    /\ ~Decode(Unwrap(SeqHist[1].response)).ok
    /\ Decode(Unwrap(SeqHist[2].response)).ok
    /\ ~IsList(Decode(Unwrap(SeqHist[2].response)).val)
    /\ files[CacheFile("hA", "parsed")] = NoFile
    /\ llmCalls = 2

\* C14: for every payload, an extraction whose model answered with the
\* payload in a fence (language-tagged or bare) and an extraction whose
\* model answered with the payload alone end alike: both return the same
\* normalised list, or both fail.
FencedSameAsUnfenced ==
    \A i \in 1..Len(SeqHist) : \A j \in 1..Len(SeqHist) :
        LET a == SeqHist[i]
            b == SeqHist[j]
        IN  (/\ a.op = "extract" /\ b.op = "extract"
             /\ a.ext = 1 /\ b.ext = 1
             /\ b.response \in {WrapJson(a.response), WrapBare(a.response)})
            => /\ a.ok = b.ok
               /\ a.value = b.value

(***************************************************************************)
(* The cache directory is on a disk that other programs, earlier versions  *)
(* of this one and faults of the medium may write to: between two calls a  *)
(* cache file may be cut short, replaced by bytes that are no JSON, or by  *)
(* JSON of another shape.                                                  *)
(***************************************************************************)
\* the file holds what one put left there
Intact(f) == \E p \in puts[f] : files[f] = FileOf(Encode(p))

\* what a damaged file f may hold: what it held cut short (to nothing or
\* to a half), or other bytes
Damaged(f) ==
    {SubSeq(files[f].data, 1, n) :
        n \in {0, Len(files[f].data) \div 2} \cap (0..(Len(files[f].data) - 1))}
        \cup {<<BadByteTok>>, <<HoleTok, HoleTok>>, Encode(List(<<>>)),
               Encode(Dict([cached_at |-> Str1("ts")]))}
        \cup (IF f.kind = "parsed"
               THEN {Encode(ParsedPayload(GoodList)),
                     Encode(ParsedPayload(Str1("junk")))}
               ELSE {})

\* the file f of the cache directory is damaged while no call runs
Corrupt(f, data) ==
    /\ proc["s1"].pc = "idle"
    /\ proc["s1"].calls < MaxCalls
    /\ \A g \in CacheFiles : files[g] = NoFile \/ Intact(g)
    /\ files' = [files EXCEPT ![f] = FileOf(data)]
    /\ UNCHANGED <<proc, hist, whisperCalls, llmCalls, audioStore, puts, crashed, normVars, dispVars>>

\* one session, its calls one after the other, on a disk that may be damaged
NextDisk ==
    \/ Step("s1", MaxCalls, {Upload("A", Str1("a.mp3"))}, 1, SomeResponses)
    \/ \E f \in {CacheFile("hA", k) : k \in {"transcript", "parsed"}} :
            \E data \in Damaged(f) : Corrupt(f, data)
SpecDisk == InitCache /\ [][NextDisk]_vars

\* the file is there and holds no entry of its kind: bytes that are no
\* UTF-8, no JSON value, a value that is no object, or an object without
\* the payload key
Unreadable(f) ==
    /\ files[f].exists
    /\ \/ \E i \in 1..Len(files[f].data) : files[f].data[i] = BadByteTok
       \/ \E i \in 1..Len(files[f].data) : files[f].data[i] = IoErrorTok
       \/ ~Decode(files[f].data).ok
       \/ ~IsDict(Decode(files[f].data).val)
       \/ ~HasKey(Decode(files[f].data).val.dict, PayloadKey(f.kind))

\* C2: a lookup of a cache file that is absent, cut short or otherwise
\* unreadable does not raise and returns None (a miss), for transcripts
\* and for parsed conversations; no call ended by raising at its lookup.
LookupNeverRaises ==
    /\ \A f \in CacheFiles :
            /\ GetCached(files[f], f.kind).ok
            /\ (~files[f].exists \/ Unreadable(f))
                    => GetCached(files[f], f.kind) = Returned(None)
    /\ \A i \in 1..Len(hist["s1"]) :
            hist["s1"][i].at = "idle" => hist["s1"][i].ok
\* an extraction looked up a file that was there, missed and called the
\* model; now a transcription has looked up a file that is unreadable,
\* missed and is about to call the transcription service
LookupNeverRaisesWitness ==
    /\ proc["s1"].pc = "t_whisper"
    /\ ~proc["s1"].cold
    /\ Unreadable(CacheFile(proc["s1"].md5, "transcript"))
    /\ \E i \in 1..Len(hist["s1"]) :
            /\ hist["s1"][i].op = "extract"
            /\ ~hist["s1"][i].cold
            /\ hist["s1"][i].ext = 1

(***************************************************************************)
(* The cache directory is on a medium whose reads and writes may fail:     *)
(* between two calls a block of a cache file may become unreadable, and a  *)
(* put may fail when it opens the file or when it writes to it.            *)
(***************************************************************************)
\* what a file holds when reading it raises
ReadFaults == {<<IoErrorTok>>, <<BadByteTok>>}
NextFaults ==
    \/ Step("s1", MaxCalls, {Upload("A", Str1("a.mp3"))}, 1,
            {Encode(GoodList), <<UnitTok("sorry", FALSE, FALSE)>>})
    \/ \E f \in {CacheFile("hA", k) : k \in {"transcript", "parsed"}} :
            \E data \in ReadFaults : Corrupt(f, data)
    \/ /\ proc["s1"].pc \in {"t_open", "x_open"}
       /\ \E written \in {-1, 0, 2} : SaveFails("s1", written)
SpecFaults == InitCache /\ [][NextFaults]_vars

\* reading file f raises
ReadRaises(f) ==
    /\ files[f].exists
    /\ \E i \in 1..Len(files[f].data) : files[f].data[i] \in {IoErrorTok, BadByteTok}
\* the call that the step began or went on with: the call in progress
\* after the step, or the call that ended in it
StepCall ==
    IF proc'["s1"].pc = "idle"
    THEN hist'["s1"][Len(hist'["s1"])]
    ELSE proc'["s1"]
\* the step is the lookup of a call
IsLookupStep ==
    /\ proc["s1"].pc = "idle"
    /\ proc'["s1"].calls = proc["s1"].calls + 1

\* C25: a failure of the cache is never fatal.  When the put of a
\* transcription or of an extraction fails (the file cannot be opened, or
\* the write fails), the call goes on with the value it computed: the
\* transcription goes on to the copy of the audio, the extraction returns
\* its list; the cache file holds no entry afterwards (a lookup of it
\* misses).  When reading the cache file raises, the lookup is a miss:
\* the transcription goes on to call the service and the extraction of a
\* transcript that is not blank goes on to call the model.
CacheFailureNotFatal ==
    [][/\ (proc["s1"].pc = "t_open" /\ proc'["s1"].pc # "t_write") =>
            /\ proc'["s1"].pc = "t_store"
            /\ proc'["s1"].value = proc["s1"].value
            /\ hist' = hist
            /\ GetCached(files'[PutFile(proc["s1"])], "transcript")
                    = Returned(None)
       /\ (proc["s1"].pc = "x_open" /\ proc'["s1"].pc # "x_write") =>
            /\ proc'["s1"].pc = "idle"
            /\ StepCall.ok
            /\ StepCall.value = proc["s1"].value
            /\ GetCached(files'[PutFile(proc["s1"])], "parsed")
                    = Returned(None)
       /\ (/\ IsLookupStep /\ StepCall.op = "transcribe"
           /\ ReadRaises(CacheFile(StepCall.md5, "transcript"))) =>
            proc'["s1"].pc = "t_whisper"
       /\ (/\ IsLookupStep /\ StepCall.op = "extract"
           /\ StepCall.md5 # "none" /\ ~IsBlank(StepCall.arg)
           /\ ReadRaises(CacheFile(StepCall.md5, "parsed"))) =>
            proc'["s1"].pc = "x_llm"
      ]_vars
\* a transcription found a cache file that cannot be read, called the
\* service, could not open the file for its put and is about to copy the
\* audio; before it an extraction returned its list although its put failed
CacheFailureNotFatalWitness ==
    /\ proc["s1"].pc = "t_store"
    /\ proc["s1"].ext = 1
    /\ ~proc["s1"].cold
    /\ proc["s1"].value \in WhisperTexts(proc["s1"].audio)
    /\ files[CacheFile("hA", "transcript")] = FileOf(<<IoErrorTok>>)
    /\ Len(SeqHist) = 1
    /\ SeqHist[1].op = "extract" /\ SeqHist[1].md5 = "hA"
    /\ SeqHist[1].ok /\ SeqHist[1].ext = 1 /\ SeqHist[1].at = "x_open"
    /\ files[CacheFile("hA", "parsed")] = FileOf(<<>>)

\* the shape normalisation gives: a list of objects with a canonical role
\* and a list of who/what annotations
NormalShape(v) ==
    /\ IsList(v)
    /\ \A i \in 1..Len(v.list) :
            /\ IsDict(v.list[i])
            /\ HasKey(v.list[i].dict, "role")
            /\ v.list[i].dict["role"] \in {Str1("atc"), Str1("pilot")}
            /\ HasKey(v.list[i].dict, "annotations")
            /\ IsList(v.list[i].dict["annotations"])
            /\ \A k \in 1..Len(v.list[i].dict["annotations"].list) :
                    LET ann == v.list[i].dict["annotations"].list[k]
                    IN  /\ IsDict(ann)
                        /\ {"text", "type"} \subseteq DOMAIN ann.dict
                        /\ ann.dict["type"] \in {Str1("who"), Str1("what")}

\* C7: an extraction with a digest whose cache file holds a parsed
\* conversation returns a value of the shape normalisation gives, whatever
\* the file holds.  The code returns the cached payload as it is.
CachedExtractNormalized ==
    \A i \in 1..Len(hist["s1"]) :
        LET e == hist["s1"][i]
        IN  (/\ e.op = "extract" /\ e.md5 # "none" /\ ~IsBlank(e.arg)
             /\ e.ok /\ e.ext = 0)
            => NormalShape(e.value)

\* two sessions that upload the same recording, and the process may die
\* during a put
Next ==
    \E s \in Sessions :
        \/ Step(s, ConcurrentCalls, {u \in Uploads : u.audio = "A"}, MaxWrites,
                SomeResponses)
        \/ Crash(s)
Spec == InitCache /\ [][Next]_vars

\* the value of the entry in payload p of a put to file f
PutValue(f, p) == p.dict[PayloadKey(f.kind)]

\* C3: cache writes are atomic: whenever a reader looks up a cache file it
\* finds no entry or the complete entry of one single put.  The code
\* writes in place, so the writes of two puts can mix in one file.
ReaderSeesOnePut ==
    \A f \in CacheFiles :
        LET r == GetCached(files[f], f.kind)
        IN  /\ r.ok
            /\ r.val = None \/ \E p \in puts[f] : r.val = PutValue(f, p)

\* C4: cache writes are crash-safe: after a crash in the middle of a put
\* a lookup of that file gives what it gave before the put began.  The
\* code cuts the file to length zero when the put begins.
CrashKeepsEntry ==
    crashed.set =>
        GetCached(files[crashed.file], crashed.file.kind)
            = GetCached(crashed.before, crashed.file.kind)

\* both sessions have transcribed the recording and got a text
BothTranscribed ==
    \A s \in Sessions :
        /\ proc[s].pc = "idle"
        /\ Len(hist[s]) = 1
        /\ hist[s][1].op = "transcribe" /\ hist[s][1].audio = "A"
        /\ hist[s][1].ok

\* C6: when two sessions have transcribed the same bytes from a cold
\* cache, at the same time or not, each got a text the service gave for
\* those bytes, the service was called once or twice, and a lookup of the
\* key now returns the complete text one of them wrote.  The code lets the
\* two puts mix, and the lookup can miss or return a mixed text.
ConcurrentTranscribeCorrect ==
    BothTranscribed =>
        /\ \A s \in Sessions : hist[s][1].value \in WhisperTexts("A")
        /\ whisperCalls["A"] \in {1, 2}
        /\ GetCached(files[CacheFile("hA", "transcript")], "transcript")
                \in {Returned(hist[s][1].value) : s \in Sessions}

(***************************************************************************)
(* The dispatcher: the registry is filled when the module is loaded, the   *)
(* chat starts, and then main handles one turn after the other.            *)
(***************************************************************************)
Descriptors ==
    {[command |-> Str1("health"), name |-> "Healthcare"],
     [command |-> Str1("health"), name |-> "Clinic"],
     [command |-> Str1("triage"), name |-> "Triage"],
     [command |-> Str1("search"), name |-> "Finder"]}

\* how the text of a turn begins
Heads ==
    {<<>>, <<"hello">>, <<"/">>, <<"/", "assistant">>,
     <<"/", "assistant", " ", "list">>, <<"/", "Assistant", " ", "List">>,
     <<"/", "assistant", " ", "list", "ing">>,
     <<"/", "assistant", " ", "health">>, <<"/", "assistant", " ", "Health">>,
     <<"/", "assistant", " ", "triage">>, <<"/", "assistant", " ", "nope">>,
     <<"/", "health">>, <<"/", "Health">>, <<"/", "triage">>, <<"/", "nope">>,
     <<"/", "search">>, <<"/", "Search">>, <<"/", "search", "ing">>,
     <<"!", "search">>, <<"search", ":">>, <<"web", ":">>,
     <<"/", "chart">>, <<"/", "Chart">>}
\* how it goes on
Tails == {<<>>, <<" ">>, <<" ", "hello">>, <<" ", "42">>}
\* message.content of a turn, some with white space in front
Contents ==
    {Str(head \o tail) : head \in Heads, tail \in Tails}
        \cup {Str(<<" ">> \o head \o <<" ", "hello">>) :
                head \in {<<>>, <<"/", "assistant", " ", "list">>,
                          <<"/", "health">>, <<"/", "search">>}}
\* message.elements of a turn
ElementLists == UNION {[1..n -> ElementSamples] : n \in 0..MaxElements}

InitDispatch ==
    /\ registry = <<>>
    /\ session = NoSession
    /\ inbound = NoInbound
    /\ fired = <<>>
    /\ routed = NoRoute
    /\ registrations = <<>>
    /\ outcome = NoOutcome
    /\ ChatIdle
    /\ CacheIdle
    /\ NormIdle

\* assistants/__init__.py 31-38: AssistantRegistry.register; a dict keeps
\* the place of a key that is assigned again
Register(descriptor) ==
    /\ ~session.started
    /\ registry' = Assign(registry, descriptor)
    /\ UNCHANGED <<session, inbound, fired, routed, registrations, outcome, normVars, cacheVars, chatVars>>

\* handlers.py 459-530: on_chat_start makes the first registered
\* assistant the active one
OnChatStart ==
    /\ ~session.started
    /\ session' = [started |-> TRUE,
                   active_assistant |->
                       IF registry # <<>> THEN registry[1].command ELSE None]
    /\ UNCHANGED <<registry, inbound, fired, routed, registrations, outcome, normVars, cacheVars, chatVars>>

\* handlers.py 557-725: main handles the turn with this content and
\* these elements
HandleMessage(content, elements) ==
    /\ session.started
    /\ ~inbound.handled
    /\ LET loop == ElementsLoop(elements, 1, content)
           text == DispatchText(content, session.active_assistant, registry)
       IN  /\ fired' = IF loop.ended THEN loop.fired
                       ELSE loop.fired \o <<text.branch>>
           /\ session' = IF loop.ended THEN session
                         ELSE [session EXCEPT !.active_assistant = text.active]
           /\ routed' = IF loop.ended THEN NoRoute
                        ELSE [reply |-> text.reply, assistant |-> text.assistant,
                              message |-> text.message]
    /\ inbound' = [handled |-> TRUE, content |-> content, elements |-> elements,
                   active |-> session.active_assistant]
    /\ outcome' = AttachmentOutcome(elements)
    /\ UNCHANGED <<registry, registrations, normVars, cacheVars, chatVars>>

\* the turn is over and the session waits for the next one
TurnOver ==
    /\ inbound.handled
    /\ inbound' = NoInbound
    /\ fired' = <<>>
    /\ routed' = NoRoute
    /\ outcome' = NoOutcome
    /\ UNCHANGED <<registry, registrations, session, normVars, cacheVars, chatVars>>

NextDispatch ==
    \/ \E descriptor \in Descriptors : Register(descriptor)
    \/ OnChatStart
    \/ /\ session.started /\ ~inbound.handled
       /\ \E content \in Contents, elements \in ElementLists :
            HandleMessage(content, elements)
    \/ TurnOver
SpecDispatch == InitDispatch /\ [][NextDispatch]_vars

\* the branches of main that answer the text of a turn
TextBranches ==
    {"list", "switch", "direct", "search", "chart", "active", "fallback"}
\* how many of the branches that ran are in the set
FiredIn(branches) == Cardinality({i \in 1..Len(fired) : fired[i] \in branches})
\* the turn has an element that main handles: an audio element or a file
HasAttachment ==
    \E i \in 1..Len(inbound.elements) : inbound.elements[i].kind \in {"audio", "file"}
\* the first such element is a file that is no audio and its handler raises
AttachmentRaises ==
    \E i \in 1..Len(inbound.elements) :
        /\ inbound.elements[i] = Element("file", FALSE, TRUE)
        /\ \A j \in 1..(i - 1) : inbound.elements[j].kind = "image"
\* the text of the turn is empty or white space
BlankContent == \A i \in 1..Len(inbound.content.str) : inbound.content.str[i] = " "

\* C1, as the code has it: handling a turn runs at least one branch; the
\* attachment branch runs once when the turn has an attachment and not
\* otherwise; exactly one of the branches for the text (meta-command,
\* direct invocation, utility command, active assistant, fallback) runs
\* when the turn has no attachment or has an attachment, text that is not
\* blank and a handler that did not raise, and none of them otherwise.
\* So a turn with an attachment and text runs two branches.
OneTextBranchAfterAttachment ==
    inbound.handled =>
        /\ fired # <<>>
        /\ FiredIn({"attachment"}) = (IF HasAttachment THEN 1 ELSE 0)
        /\ FiredIn(TextBranches) =
                (IF ~HasAttachment \/ (~BlankContent /\ ~AttachmentRaises)
                 THEN 1 ELSE 0)
        /\ Len(fired) = FiredIn({"attachment"}) + FiredIn(TextBranches)
        /\ HasAttachment => fired[1] = "attachment"
\* a turn with an audio element and a direct invocation ran both branches
OneTextBranchAfterAttachmentWitness ==
    /\ inbound.handled
    /\ inbound.elements = <<Element("audio", TRUE, FALSE)>>
    /\ inbound.active = Str1("triage")
    /\ fired = <<"attachment", "direct">>
\* C1, as the specification has it: handling a turn runs exactly one branch.
ExactlyOneBranch == inbound.handled => Len(fired) = 1

\* the text of the turn without the white space around it
Trimmed == Strip(inbound.content.str)
\* its first word, and what follows the first word and the white space
\* after it
FirstWord == IF Trimmed = <<>> THEN <<>> ELSE Split(Trimmed, 1)[1]
AfterFirstWord == Strip(SubSeq(Trimmed, Len(FirstWord) + 1, Len(Trimmed)))
\* the turn was handled and main reached the branches for its text: it
\* did not end in the attachment branch
TextDispatched == inbound.handled /\ FiredIn(TextBranches) = 1
\* the text is / followed by the command of a registered assistant
IsDirect ==
    /\ StartsWith(FirstWord, <<"/">>)
    /\ Registered(registry, Str(Tail(FirstWord)))
\* the one branch for the text that ran is this one
OnlyTextBranch(branch) ==
    /\ FiredIn({branch}) = 1
    /\ FiredIn(TextBranches) = 1

\* C15: when the text of a turn that reaches the text branches begins with
\* / and the command of a registered assistant, then, whatever the active
\* assistant is, the handler of that assistant is called with the text
\* after the command (and not with the command), the active assistant of
\* the session stays what it was, and no other branch for the text
\* (utility, active assistant, fallback) runs.
DirectInvocation ==
    (TextDispatched /\ IsDirect) =>
        /\ OnlyTextBranch("direct")
        /\ routed.assistant = Str(Tail(FirstWord))
        /\ routed.message = Str(AfterFirstWord)
        /\ session.active_assistant = inbound.active
\* /health hello while triage is active: health gets hello, triage stays
DirectInvocationWitness ==
    /\ inbound.handled
    /\ inbound.content = Str(<<" ", "/", "health", " ", "hello">>)
    /\ inbound.active = Str1("triage")
    /\ fired = <<"direct">>
    /\ routed.assistant = Str1("health")
    /\ routed.message = Str1("hello")
    /\ session.active_assistant = Str1("triage")

\* the text is /assistant list, alone or followed by more
IsListCommand ==
    \/ Lower(Trimmed) = <<"/", "assistant", " ", "list">>
    \/ StartsWith(Lower(Trimmed), <<"/", "assistant", " ", "list", " ">>)
\* the text is /assistant followed by a name, and is not /assistant list
IsSwitchCommand ==
    /\ Lower(FirstWord) = <<"/", "assistant">>
    /\ Len(Split(Trimmed, 2)) >= 2
    /\ ~IsListCommand
\* the name that follows /assistant
SwitchName == Split(Trimmed, 2)[2]

\* C16: for a turn that reaches the text branches with /assistant name:
\* when name is the command of a registered assistant, name becomes the
\* active assistant; when it is not, a "not found" reply is sent and the
\* active assistant stays what it was.  In both cases, and for
\* /assistant list (which changes nothing), the branch of the
\* meta-command is the only branch for the text that runs and the
\* handler of no assistant is called.
MetaCommandSwitches ==
    /\ (TextDispatched /\ IsSwitchCommand) =>
            /\ OnlyTextBranch("switch")
            /\ routed.assistant = None
            /\ IF Registered(registry, Str(SwitchName))
               THEN /\ session.active_assistant = Str(SwitchName)
                    /\ routed.reply = "switched"
               ELSE /\ session.active_assistant = inbound.active
                    /\ routed.reply = "not found"
    /\ (TextDispatched /\ IsListCommand) =>
            /\ OnlyTextBranch("list")
            /\ routed.assistant = None
            /\ session.active_assistant = inbound.active
\* after a switch away from the first registered assistant, a turn
\* /assistant nope is answered with "not found" and changes nothing
MetaCommandSwitchesWitness ==
    /\ inbound.handled
    /\ Len(registry) = 2
    /\ registry[1].command = Str1("health")
    /\ inbound.active = Str1("triage")
    /\ inbound.content = Str(<<"/", "assistant", " ", "nope">>)
    /\ fired = <<"switch">>
    /\ routed.reply = "not found"
    /\ session.active_assistant = Str1("triage")

\* the text starts with a trigger of the search utility
IsSearchTrigger ==
    \E prefix \in {<<"/", "search">>, <<"!", "search">>, <<"search", ":">>,
                    <<"web", ":">>, <<"lookup", ":">>} :
        StartsWith(Lower(Trimmed), prefix)
\* the text starts with the trigger of the chart utility
IsChartTrigger == StartsWith(Lower(Trimmed), <<"/", "chart">>)

\* C17: whatever the active assistant is, a turn that reaches the text
\* branches with a text that starts with a search trigger or the chart
\* trigger, and is no meta-command and no direct invocation, is answered
\* by the search or the chart utility and by no other branch for the
\* text: the handler of the active assistant is not called, and the
\* active assistant stays what it was.
UtilityBeforeAssistant ==
    (/\ TextDispatched
     /\ IsSearchTrigger \/ IsChartTrigger
     /\ ~IsListCommand /\ ~IsSwitchCommand /\ ~IsDirect) =>
        /\ OnlyTextBranch(IF IsSearchTrigger THEN "search" ELSE "chart")
        /\ routed.assistant = None
        /\ routed.reply = (IF IsSearchTrigger THEN "search" ELSE "chart")
        /\ session.active_assistant = inbound.active
\* web: hello while health is active is answered by the search utility
UtilityBeforeAssistantWitness ==
    /\ inbound.handled
    /\ inbound.active = Str1("health")
    /\ Registered(registry, Str1("health"))
    /\ inbound.content = Str(<<"web", ":", " ", "hello">>)
    /\ fired = <<"search">>
    /\ routed.message = Str1("hello")
    /\ routed.assistant = None

\* the text is no meta-command, no direct invocation and starts with no
\* trigger of a utility
IsPlainText ==
    /\ ~IsListCommand /\ ~IsSwitchCommand /\ ~IsDirect
    /\ ~IsSearchTrigger /\ ~IsChartTrigger

\* C18: for a turn that reaches the text branches with a text that is no
\* meta-command, no direct invocation and no utility trigger: when the
\* session has an active assistant and the registry knows it, the handler
\* of that assistant is called with the whole text as it came, white
\* space included, and the fallback does not run; when the session has
\* none, the fallback gets the text and the handler of no assistant is
\* called.
ActiveElseFallback ==
    (TextDispatched /\ IsPlainText) =>
        /\ routed.message = inbound.content
        /\ session.active_assistant = inbound.active
        /\ IF inbound.active # None /\ Registered(registry, inbound.active)
           THEN /\ OnlyTextBranch("active")
                /\ routed.assistant = inbound.active
           ELSE /\ OnlyTextBranch("fallback")
                /\ routed.assistant = None
\* a text with white space around it went to the active assistant
\* untrimmed, after a switch to the second registered assistant
ActiveElseFallbackWitness ==
    /\ inbound.handled
    /\ Len(registry) = 2
    /\ inbound.active = registry[2].command
    /\ inbound.content = Str(<<" ", " ", "hello">>)
    /\ fired = <<"active">>
    /\ routed.assistant = registry[2].command
    /\ routed.message = Str(<<" ", " ", "hello">>)

AssistantWords == {<<"/", "assistant">>, <<"/", "Assistant">>}
ListWords == {<<"list">>, <<"List">>}
SearchWords == {<<"/", "search">>, <<"/", "Search">>}
ChartWords == {<<"/", "chart">>, <<"/", "Chart">>}
\* word is, letter for letter, the command of a registered assistant
ExactCommand(word) ==
    \E i \in 1..Len(registry) : registry[i].command = Str(word)
\* the second word of the text, or nothing
SecondWord ==
    IF Len(Split(Trimmed, 2)) >= 2 THEN Split(Trimmed, 2)[2] ELSE <<>>

\* C20: for a turn that reaches the text branches, the keywords are
\* matched in any case of letters and the commands of assistants letter
\* for letter: /assistant or /Assistant followed by a word is a
\* meta-command (the list when the word is list or List, a switch
\* otherwise); /search, /Search, /chart and /Chart are answered by the
\* search and the chart utility unless the word is exactly / and a
\* registered command; a switch succeeds exactly when the name equals a
\* registered command, case included, and a direct invocation runs
\* exactly when the first word equals / and a registered command, case
\* included.
KeywordsAnyCaseCommandsExact ==
    TextDispatched =>
        /\ (FirstWord \in AssistantWords /\ SecondWord # <<>>) =>
                /\ FiredIn({"list", "switch"}) = 1
                /\ FiredIn({"list"}) = 1 <=> SecondWord \in ListWords
        /\ (FirstWord \in SearchWords /\ ~ExactCommand(Tail(FirstWord))) =>
                FiredIn({"search"}) = 1
        /\ (FirstWord \in ChartWords /\ ~ExactCommand(Tail(FirstWord))) =>
                FiredIn({"chart"}) = 1
        /\ routed.reply = "switched" <=>
                /\ FirstWord \in AssistantWords
                /\ SecondWord \notin ListWords
                /\ ExactCommand(SecondWord)
        /\ FiredIn({"direct"}) = 1 <=>
                /\ StartsWith(FirstWord, <<"/">>)
                /\ ExactCommand(Tail(FirstWord))
\* /Search hello with an assistant registered under search: the search
\* utility answers, the assistant is not invoked
KeywordsAnyCaseCommandsExactWitness ==
    /\ inbound.handled
    /\ ExactCommand(<<"search">>)
    /\ inbound.content = Str(<<"/", "Search", " ", "hello">>)
    /\ fired = <<"search">>
    /\ routed.assistant = None
    /\ routed.message = Str1("hello")

(***************************************************************************)
(* The registry with a record of the calls of register: descriptors are    *)
(* registered, some more than once, the chat starts and the user asks for  *)
(* the list or switches.                                                   *)
(***************************************************************************)
RegistryDescriptors ==
    Descriptors \cup {[command |-> Str1("ops"), name |-> "Operations"]}
RegistryContents ==
    {Str(<<"/", "assistant", " ", "list">>),
     Str(<<"/", "assistant", " ", "triage">>), Str(<<"hello">>)}

\* assistants/__init__.py 31-39: AssistantRegistry.register, recorded
RegisterLogged(descriptor) ==
    /\ ~session.started
    /\ Len(registrations) < MaxRegistrations
    /\ registry' = Assign(registry, descriptor)
    /\ registrations' = Append(registrations, descriptor)
    /\ UNCHANGED <<session, inbound, fired, routed, outcome, normVars, cacheVars, chatVars>>

NextRegistry ==
    \/ \E descriptor \in RegistryDescriptors : RegisterLogged(descriptor)
    \/ OnChatStart
    \/ /\ session.started /\ ~inbound.handled
       /\ \E content \in RegistryContents : HandleMessage(content, <<>>)
    \/ TurnOver
SpecRegistry == InitDispatch /\ [][NextRegistry]_vars

\* the commands that may be asked for
AskedCommands ==
    {d.command : d \in RegistryDescriptors} \cup {Str1("nope"), Str1("Health")}
\* the calls of register that named this command
CallsFor(command) ==
    {k \in 1..Len(registrations) : registrations[k].command = command}
\* the last of them
LastCallFor(command) ==
    CHOOSE k \in CallsFor(command) : \A j \in CallsFor(command) : j <= k

\* C21: after any sequence of calls of register the registry holds one
\* descriptor for each command that was named and none for any other
\* command; get returns the descriptor of the last call that named the
\* command, and None for a command that no call named.
RegistryLastWins ==
    /\ \A i \in 1..Len(registry) : \A j \in 1..Len(registry) :
            registry[i].command = registry[j].command => i = j
    /\ \A command \in AskedCommands :
            IF CallsFor(command) = {}
            THEN /\ Get(registry, command) = None
                 /\ ~Registered(registry, command)
            ELSE /\ Get(registry, command) = registrations[LastCallFor(command)]
                 /\ Cardinality({i \in 1..Len(registry) :
                                    registry[i].command = command}) = 1
\* health was registered twice, with triage in between: two descriptors,
\* the second one of health is the one get returns
RegistryLastWinsWitness ==
    /\ Len(registrations) = 3
    /\ registrations[1] = [command |-> Str1("health"), name |-> "Healthcare"]
    /\ registrations[2].command = Str1("triage")
    /\ registrations[3] = [command |-> Str1("health"), name |-> "Clinic"]
    /\ Len(registry) = 2
    /\ Get(registry, Str1("health")).name = "Clinic"
    /\ Get(registry, Str1("ops")) = None

RECURSIVE FirstSeen(_, _)
\* the commands of the calls from call k on that no earlier call named
FirstSeen(k, seen) ==
    IF k > Len(registrations) THEN <<>>
    ELSE IF registrations[k].command \in seen THEN FirstSeen(k + 1, seen)
    ELSE <<registrations[k].command>>
            \o FirstSeen(k + 1, seen \cup {registrations[k].command})

\* C22: list_all returns every registered assistant once, in the order in
\* which their commands were first registered, and the reply to
\* /assistant list names them in that order.
ListInRegistrationOrder ==
    /\ Len(ListAll(registry)) = Len(FirstSeen(1, {}))
    /\ \A i \in 1..Len(ListAll(registry)) :
            /\ ListAll(registry)[i].command = FirstSeen(1, {})[i]
            /\ ListAll(registry)[i] = Get(registry, FirstSeen(1, {})[i])
    /\ (inbound.handled /\ fired = <<"list">>) =>
            /\ routed.message = List(FirstSeen(1, {}))
            /\ routed.reply = (IF registrations = <<>> THEN "none registered"
                                ELSE "available")
\* health, then ops, then health again: the list names health before ops
ListInRegistrationOrderWitness ==
    /\ Len(registrations) = 3
    /\ registrations[1].command = Str1("health")
    /\ registrations[2].command = Str1("ops")
    /\ registrations[3].command = Str1("health")
    /\ inbound.handled
    /\ fired = <<"list">>
    /\ routed.message = List(<<Str1("health"), Str1("ops")>>)
    /\ routed.reply = "available"


(***************************************************************************)
(* Turns with an audio attachment whose stages may fail.                   *)
(***************************************************************************)
\* how transcribe_audio ends: a transcript, a blank transcript, an error
\* of the service, a failure of the copy to the audio store
TranscriptionOutcomes ==
    {Returned(SampleTranscript), Returned(Str(<<>>)),
     StageFails("APIError", Str1("quota")), StageFails("OSError", Str(<<>>))}
\* how parse_atc_conversation ends: a conversation, an empty list (a blank
\* transcript), a response that cannot be parsed, an error of the model
ExtractionOutcomes ==
    {Returned(SampleConversation), Returned(List(<<>>)),
     StageFails("ValueError", Str1("format")), StageFails("APIError", Str(<<>>))}
AudioSamples ==
    {Staged(kind, TRUE, FALSE, transcribed, extracted) :
        kind \in {"audio", "file"},
        transcribed \in TranscriptionOutcomes, extracted \in ExtractionOutcomes}
        \cup {Element("file", TRUE, TRUE), Element("image", FALSE, FALSE)}
AudioElementLists ==
    {<<e>> : e \in AudioSamples}
        \cup {<<Element("image", FALSE, FALSE), e>> : e \in AudioSamples}
AudioContents == {Str(<<>>), Str(<<" ">>), Str(<<"hello">>), Str(<<"/", "health">>)}
NextAudio ==
    \/ Register([command |-> Str1("health"), name |-> "Healthcare"])
    \/ OnChatStart
    \/ /\ session.started /\ ~inbound.handled
       /\ \E content \in AudioContents, elements \in AudioElementLists :
            HandleMessage(content, elements)
    \/ TurnOver
SpecAudio == InitDispatch /\ [][NextAudio]_vars

\* the audio attachment that the turn handled
HandledAudio == inbound.elements[FirstHandled(inbound.elements)]
\* the turn handled an audio attachment and the audio handler got as far
\* as the transcription
AudioStagesRan ==
    /\ inbound.handled
    /\ FirstHandled(inbound.elements) # 0
    /\ HandledAudio.is_audio
    /\ ~HandledAudio.raises
\* a message that tells the user of a failure
IsFailureMessage(message) ==
    message.content \in {"failed to transcribe", "failed to parse", "could not parse"}

\* C26: when the transcription or the extraction fails while a turn's
\* audio attachment is handled, no exception leaves the turn handler and
\* the user is sent a failure message in that turn: for a failed
\* transcription the message that the transcription failed, with the text
\* and the type of the error; for a failed extraction, after a
\* transcription that succeeded, the message that the conversation could
\* not be parsed.
StageFailureIsReported ==
    (AudioStagesRan
        /\ (~HandledAudio.transcribed.ok \/ ~HandledAudio.extracted.ok)) =>
        /\ ~outcome.escaped
        /\ \E i \in 1..Len(outcome.sent) : IsFailureMessage(outcome.sent[i])
        /\ ~HandledAudio.transcribed.ok =>
                outcome.sent = <<UserMessage("failed to transcribe",
                                             HandledAudio.transcribed.category,
                                             HandledAudio.transcribed.detail)>>
        /\ HandledAudio.transcribed.ok =>
                /\ Len(outcome.sent) = 2
                /\ outcome.sent[2].content \in {"failed to parse", "could not parse"}
\* a turn with an audio file whose transcription succeeded and whose
\* extraction raised: the user sees that the conversation was not parsed,
\* and the text of the turn was answered
StageFailureIsReportedWitness ==
    /\ AudioStagesRan
    /\ HandledAudio.kind = "file"
    /\ HandledAudio.transcribed.ok
    /\ HandledAudio.extracted = StageFails("ValueError", Str1("format"))
    /\ outcome.sent[2] = UserMessage("failed to parse", "none", Str1("format"))
    /\ ~outcome.escaped
    /\ inbound.content = Str(<<"hello">>)
    /\ fired = <<"attachment", "fallback">>

(***************************************************************************)
(* Two chat sessions and the healthcare assistant.  Every chat has its own *)
(* cl.user_session; the registry is shared.                                *)
(***************************************************************************)
\* a variant of SessionSet that keeps one value for all sessions
SessionSetShared(sessions, s, key, value) ==
    [t \in DOMAIN sessions |-> [sessions[t] EXCEPT ![key] = value]]
\* handlers.py 663, agent.py 73: cl.user_session.set(key, value) in the
\* chat of session s
SessionSet(sessions, s, key, value) ==
    [sessions EXCEPT ![s] = [@ EXCEPT ![key] = value]]

\* ASSISTANT_DESCRIPTOR of assistants/healthcare/__init__.py and an
\* assistant that keeps no state
HealthDescriptor == [command |-> Str1("health"), name |-> "Healthcare"]
TriageDescriptor == [command |-> Str1("triage"), name |-> "Triage"]
\* the registry after the discovery of the assistants
ChatRegistries ==
    {<<HealthDescriptor>>, <<TriageDescriptor, HealthDescriptor>>}
\* message.content of the turns of a chat
ChatContents ==
    {Str(units) : units \in
        {<<"schedule", " ", "appointment">>, <<"appointment">>, <<"book">>,
         <<"book", " ", "Monday">>, <<"Monday", " ", "10", " ", "AM">>,
         <<"book", " ", "Wednesday", " ", "1", " ", "PM">>,
         <<"schedule", " ", "exam">>,
         <<"appointment", " ", "yes">>, <<"yes">>,
         <<"appointment", " ", "none">>, <<"none">>,
         <<"appointment", " ", "none", " ", "Tuesday">>,
         <<"lab", " ", "results">>, <<"hello">>,
         <<"/", "assistant", " ", "triage">>, <<"/", "assistant", " ", "health">>,
         <<"/", "health", " ", "schedule">>}}
\* the turns of a chat: a text, or a text with a file whose handler raises
ChatTurns ==
    {<<content, <<>>>> : content \in ChatContents}
        \cup {<<content, <<Element("file", FALSE, TRUE)>>>> :
                content \in {Str(<<"schedule", " ", "appointment">>),
                             Str(<<"/", "assistant", " ", "triage">>)}}

InitChat ==
    /\ registry \in ChatRegistries
    /\ session = NoSession
    /\ inbound = NoInbound
    /\ fired = <<>>
    /\ routed = NoRoute
    /\ registrations = <<>>
    /\ outcome = NoOutcome
    /\ ChatIdle
    /\ CacheIdle
    /\ NormIdle

\* handlers.py 459-530: on_chat_start in the chat of session s
ChatStart(s) ==
    /\ ~stores[s].started
    /\ stores' = SessionSet(SessionSet(stores, s, "started", TRUE),
                            s, "active_assistant",
                            IF registry # <<>> THEN registry[1].command ELSE None)
    /\ said' = [NoTurn EXCEPT !.session = s, !.branch = "start"]
    /\ UNCHANGED <<journey, registry, session, inbound, fired, routed,
                   registrations, outcome, normVars, cacheVars>>

\* the replies of _handle_scheduling with which the dialogue moves on
JourneySteps ==
    {"reason prompt", "slots", "confirm this appointment", "later slots",
     "scheduled"}
\* handlers.py 557-725: main handles a turn of the chat of session s; the
\* handle_message of the healthcare assistant is agent.py 8-138
Main(s, content, elements) ==
    /\ stores[s].started
    /\ \E loop \in {ElementsLoop(elements, 1, content)},
          text \in {DispatchText(content, stores[s].active_assistant, registry)} :
        \E assistant \in {IF loop.ended \/ text.assistant = None THEN None
                          ELSE Get(registry, text.assistant)} :
        \E answer \in {IF assistant # None /\ assistant.name = "Healthcare"
                       THEN HealthHandleMessage(
                                text.message.str,
                                stores[s].healthcare_scheduling_state)
                       ELSE Replied(IF loop.ended THEN "none" ELSE text.reply,
                                    None, None)},
           switched \in {IF /\ ~loop.ended /\ text.branch = "switch"
                            /\ text.reply = "switched"
                         THEN SessionSet(stores, s, "active_assistant", text.active)
                         ELSE stores} :
            /\ stores' = IF answer.stored # None
                         THEN SessionSet(switched, s,
                                         "healthcare_scheduling_state",
                                         answer.stored)
                         ELSE switched
            /\ said' = [session |-> s, content |-> content, elements |-> elements,
                        branch |-> IF loop.ended THEN "attachment" ELSE text.branch,
                        assistant |-> IF assistant = None THEN "none"
                                      ELSE assistant.name,
                        message |-> IF assistant = None THEN None
                                    ELSE text.message,
                        reply |-> answer.reply, scheduled |-> answer.scheduled,
                        before |-> stores[s],
                        raised |-> AttachmentOutcome(elements).escaped]
            /\ journey' = [journey EXCEPT ![s] =
                               IF answer.reply = "reason prompt"
                               THEN {"reason prompt"}
                               ELSE IF answer.reply \in JourneySteps
                               THEN @ \cup {answer.reply}
                               ELSE @]
    /\ UNCHANGED <<registry, session, inbound, fired, routed, registrations,
                   outcome, normVars, cacheVars>>

NextChat ==
    \/ \E s \in Sessions : ChatStart(s)
    \/ \E s \in Sessions : \E turn \in ChatTurns : Main(s, turn[1], turn[2])
SpecChat == InitChat /\ [][NextChat]_vars

\* the scheduling state of a store as a dict: the empty dict when the
\* session has none
SchedulingState(store) ==
    IF store.healthcare_scheduling_state = None THEN EmptyDict
    ELSE store.healthcare_scheduling_state.dict

\* C27: session isolation.  A step of one session (said names the session
\* of every step), a turn that succeeds or a turn whose handler raises,
\* leaves the active assistant and the
\* scheduling state of every other session as they were.
SessionIsolation ==
    [][\A s \in Sessions :
            said'.session # s =>
                /\ stores'[s].active_assistant = stores[s].active_assistant
                /\ stores'[s].healthcare_scheduling_state
                        = stores[s].healthcare_scheduling_state]_vars
\* the handler of a file raised in a turn of the second session, which was
\* about to be offered slots, while the first session, whose assistant is
\* another, has selected a slot: both are as they were
SessionIsolationWitness ==
    /\ said.session = "s2"
    /\ said.raised
    /\ stores["s2"] = said.before
    /\ stores["s2"].active_assistant = Str1("health")
    /\ DOMAIN SchedulingState(stores["s2"]) = {"reason"}
    /\ stores["s1"].active_assistant = Str1("triage")
    /\ HasKey(SchedulingState(stores["s1"]), "selected_slot")

\* the last step was a turn that the dispatcher handed to the healthcare
\* assistant
ToHealth == said.assistant = "Healthcare"
\* the text the assistant tests: lower-cased and trimmed
SaidLower == Strip(Lower(said.message.str))
\* the turn entered the scheduling journey (agent.py 18-22)
EntersScheduling == ToHealth /\ ContainsAny(SaidLower, SchedulingKeywords)
\* the scheduling state of the session before and after its turn
Before == SchedulingState(said.before)
After == SchedulingState(stores[said.session])

\* C28: from Start (the session holds no scheduling state, or the empty
\* one that a confirmed appointment leaves), the turn that enters the
\* scheduling task is answered with the reason prompt and offers no slots:
\* after it the state holds the reason only, slots_shown is not set and
\* there are no upcoming_slots.
FirstTurnAsksReason ==
    (EntersScheduling /\ DOMAIN Before = {}) =>
        /\ said.reply = "reason prompt"
        /\ ~HasKey(After, "slots_shown")
        /\ ~HasKey(After, "upcoming_slots")
        /\ DOMAIN After = {"reason"}
        /\ said.scheduled = None
\* after an appointment was confirmed, which left the empty state behind,
\* the user asks to schedule an appointment and gets the reason prompt
FirstTurnAsksReasonWitness ==
    /\ EntersScheduling
    /\ said.content = Str(<<"schedule", " ", "appointment">>)
    /\ said.before.healthcare_scheduling_state = Dict(EmptyDict)
    /\ said.reply = "reason prompt"
    /\ DOMAIN After = {"reason"}

\* the slots the session was offered before the turn
OfferedBefore ==
    IF HasKey(Before, "upcoming_slots") THEN Before["upcoming_slots"].list ELSE <<>>
\* before the turn the dialogue was in SlotsOffered: the slots were shown
\* and none is selected
InSlotsOffered ==
    /\ HasKey(Before, "slots_shown")
    /\ ~HasKey(Before, "selected_slot")

\* C29: in SlotsOffered, a turn that reaches the scheduling journey and
\* whose lower-cased text contains a word of an offered slot selects that
\* slot and is answered with the question whether to confirm it.
SlotTokenPicksThatSlot ==
    \A i \in 1..Len(OfferedBefore) :
        (/\ EntersScheduling
         /\ InSlotsOffered
         /\ SlotMatches(OfferedBefore[i], Lower(said.message.str))) =>
            /\ said.reply = "confirm this appointment"
            /\ HasKey(After, "selected_slot")
            /\ After["selected_slot"] = OfferedBefore[i]

\* before the turn the session had been offered the later slots
LaterSlotsOffered == HasKey(Before, "later_slots_shown")

\* C30: once the later slots were offered, a turn of the scheduling
\* journey in which the user rejects the options again is answered with
\* the message to call the office, not with the later slots again.
RepeatedRejectionEscalates ==
    (/\ EntersScheduling
     /\ LaterSlotsOffered
     /\ ContainsAny(Lower(said.message.str), Rejections)
     /\ PickedSlot(OfferedBefore, Lower(said.message.str)) = None) =>
        said.reply = "call our office"

\* the text of the turn has no word of an offered slot, no affirmation and
\* no rejection
Unmatched ==
    /\ PickedSlot(OfferedBefore, Lower(said.message.str)) = None
    /\ ~ContainsAny(Lower(said.message.str), Affirmations)
    /\ ~ContainsAny(Lower(said.message.str), Rejections)
\* before the turn the dialogue was in SlotPicked: a slot is selected and
\* the later slots were not offered
InSlotPicked ==
    /\ HasKey(Before, "selected_slot")
    /\ ~HasKey(Before, "later_slots_shown")

\* C31: a turn of the scheduling journey whose text matches none of the
\* keywords does not raise, leaves the scheduling state as it was and is
\* answered with the prompt of the state the dialogue is in: the
\* which-time prompt in SlotsOffered, the question whether to confirm the
\* slot in SlotPicked.
UnmatchedReasksPrompt ==
    (/\ EntersScheduling /\ Unmatched
     /\ HasKey(Before, "slots_shown") /\ ~LaterSlotsOffered) =>
        /\ ~said.raised
        /\ After = Before
        /\ InSlotsOffered => said.reply = "which time"
        /\ InSlotPicked => said.reply = "confirm this appointment"


\* the replies with which the scheduling dialogue moves on
MovingReplies ==
    {"slots", "confirm this appointment", "scheduled", "later slots"}

\* C32: Escalated is a terminal state of the scheduling dialogue: after a
\* session was told to call the office, its next turn does not move the
\* dialogue (no offer of slots, no selection, no confirmation) and leaves
\* its scheduling state as it was.
EscalatedIsTerminal ==
    [][(said.reply = "call our office" /\ said'.session = said.session) =>
            /\ said'.reply \notin MovingReplies
            /\ stores'[said.session].healthcare_scheduling_state
                    = stores[said.session].healthcare_scheduling_state]_vars

(***************************************************************************)
(* One chat with turns of every kind: texts of the scheduling journey,     *)
(* other texts for the healthcare assistant, meta-commands, commands of    *)
(* assistants, utility commands, and attachments.                          *)
(***************************************************************************)
TurnRegistries ==
    {<<>>, <<HealthDescriptor>>, <<TriageDescriptor, HealthDescriptor>>}
TurnContents ==
    {Str(units) : units \in
        {<<"schedule", " ", "appointment">>, <<"book", " ", "Monday">>,
         <<"appointment", " ", "none">>, <<"appointment", " ", "yes">>,
         <<"Monday", " ", "10", " ", "AM">>, <<"yes">>, <<"none">>,
         <<"lab", " ", "results">>, <<"insurance">>, <<"human">>,
         <<"urgent">>, <<"hello">>, <<>>,
         <<"/", "assistant", " ", "list">>, <<"/", "assistant">>,
         <<"/", "assistant", " ", "triage">>, <<"/", "assistant", " ", "health">>,
         <<"/", "assistant", " ", "nope">>,
         <<"/", "health", " ", "schedule">>, <<"/", "health", " ", "hello">>,
         <<"/", "triage", " ", "schedule">>, <<"/", "nope", " ", "schedule">>,
         <<"/", "search", " ", "schedule">>, <<"search", ":", "appointment">>,
         <<"/", "chart", " ", "42">>}}
\* the attachments of a turn
TurnElements ==
    {<<>>, <<Element("audio", TRUE, FALSE)>>, <<Element("file", TRUE, TRUE)>>,
     <<Element("file", FALSE, FALSE)>>, <<Element("file", FALSE, TRUE)>>,
     <<Element("image", FALSE, FALSE), Element("file", FALSE, FALSE)>>}
InitTurns ==
    /\ registry \in TurnRegistries
    /\ session = NoSession
    /\ inbound = NoInbound
    /\ fired = <<>>
    /\ routed = NoRoute
    /\ registrations = <<>>
    /\ outcome = NoOutcome
    /\ ChatIdle
    /\ CacheIdle
    /\ NormIdle
NextTurns ==
    \/ ChatStart("s1")
    \/ /\ stores["s1"].started
       /\ \E content \in TurnContents, elements \in TurnElements :
            Main("s1", content, elements)
SpecTurns == InitTurns /\ [][NextTurns]_vars

\* C33: the scheduling state is changed only by a turn that reaches the
\* scheduling journey.  The start of the chat, a meta-command, a turn for
\* another assistant, a utility command, a fallback turn, a turn that ends
\* with its attachment, and a turn that the healthcare assistant answers
\* without the journey all leave the state of the session as it was.
OnlyJourneyChangesState ==
    (said.session \in Sessions /\ ~EntersScheduling) =>
        stores[said.session].healthcare_scheduling_state
            = said.before.healthcare_scheduling_state
\* a slot is selected and the healthcare assistant answers a question
\* about lab results: the selection is still there
OnlyJourneyChangesStateWitness ==
    /\ ToHealth
    /\ said.reply = "lab results"
    /\ HasKey(Before, "selected_slot")
    /\ After = Before

\* C34: the steps of a run of the scheduling dialogue occur in the order
\* of the protocol: slots are offered only after the reason prompt, a slot
\* is selected only after slots were offered, later slots are offered only
\* after the first slots, and an appointment is scheduled only after a
\* slot was selected, and for the slot that is selected at that moment.
ProtocolOrder ==
    \A s \in Sessions :
        /\ "slots" \in journey[s] => "reason prompt" \in journey[s]
        /\ "confirm this appointment" \in journey[s] => "slots" \in journey[s]
        /\ "later slots" \in journey[s] => "slots" \in journey[s]
        /\ "scheduled" \in journey[s] =>
                "confirm this appointment" \in journey[s]
        /\ (said.session = s /\ said.reply = "scheduled") =>
                /\ HasKey(Before, "selected_slot")
                /\ said.scheduled = Before["selected_slot"]
\* a run that went through every step: the later slots were offered, then
\* a slot of the first offer was selected and scheduled
ProtocolOrderWitness ==
    /\ said.session = "s1"
    /\ said.reply = "scheduled"
    /\ journey["s1"] = JourneySteps
    /\ said.scheduled = Str(<<"Monday", " ", "10", " ", "AM">>)

\* the elements of a list
Elements(list) == {list[i] : i \in 1..Len(list)}
\* the scheduling state d is well-formed
WellFormed(d) ==
    /\ DOMAIN d \subseteq {"reason", "slots_shown", "upcoming_slots",
                            "selected_slot", "later_slots_shown"}
    /\ HasKey(d, "slots_shown") => HasKey(d, "reason")
    /\ HasKey(d, "slots_shown") <=> HasKey(d, "upcoming_slots")
    /\ HasKey(d, "selected_slot") =>
            /\ HasKey(d, "slots_shown")
            /\ d["selected_slot"] \in Elements(d["upcoming_slots"].list)
            /\ d["selected_slot"] \notin Elements(GetLaterSlots)
    /\ HasKey(d, "later_slots_shown") => HasKey(d, "slots_shown")

\* C35: every scheduling state a session reaches is well-formed:
\* slots_shown is set only with a reason; a selected slot is there only
\* when slots were shown, and it is one of upcoming_slots, never a later
\* slot; later_slots_shown is set only when slots_shown is.
StateWellFormed ==
    \A s \in Sessions : WellFormed(SchedulingState(stores[s]))
\* a session that was offered the later slots and then selected a slot
StateWellFormedWitness ==
    /\ HasKey(SchedulingState(stores["s1"]), "later_slots_shown")
    /\ HasKey(SchedulingState(stores["s1"]), "selected_slot")
    /\ SchedulingState(stores["s1"])["selected_slot"]
            = Str(<<"Tuesday", " ", "2", " ", "PM">>)

MatchingSlots ==
    {i \in 1..Len(OfferedBefore) :
        \E word \in Elements(SplitAll(Lower(OfferedBefore[i].str))) :
            Contains(Lower(said.message.str), word)}

\* C37: once slots were shown, a turn of the scheduling journey whose
\* lower-cased text contains a lower-cased word of an offered slot selects
\* the first such slot in the order of the offer and asks to confirm it;
\* that turn schedules nothing and does not offer the later slots, whether
\* or not the text also holds an affirmation or a rejection.
FirstMatchingSlotWins ==
    (/\ EntersScheduling
     /\ HasKey(Before, "slots_shown")
     /\ MatchingSlots # {}) =>
        /\ \E i \in MatchingSlots :
                /\ \A j \in MatchingSlots : i <= j
                /\ After["selected_slot"] = OfferedBefore[i]
        /\ said.reply = "confirm this appointment"
        /\ said.scheduled = None
        /\ HasKey(After, "later_slots_shown") = HasKey(Before, "later_slots_shown")
        /\ After # EmptyDict
\* Monday was selected; the turn names Wednesday 1 PM and, with "book",
\* holds the affirmation "ok": Tuesday 2 PM, the first slot with "pm", is
\* selected and nothing is scheduled
FirstMatchingSlotWinsWitness ==
    /\ EntersScheduling
    /\ said.content = Str(<<"book", " ", "Wednesday", " ", "1", " ", "PM">>)
    /\ HasKey(Before, "selected_slot")
    /\ Before["selected_slot"] = Str(<<"Monday", " ", "10", " ", "AM">>)
    /\ ContainsAny(Lower(said.message.str), Affirmations)
    /\ MatchingSlots = {2, 3}
    /\ After["selected_slot"] = Str(<<"Tuesday", " ", "2", " ", "PM">>)
    /\ said.scheduled = None

(***************************************************************************)
(* The stages as the audio handler calls them: transcribe_audio for the    *)
(* uploaded file, then parse_atc_conversation for its transcript.          *)
(***************************************************************************)
\* a variant of ExtractionKey that passes the digest of the audio
ExtractionKeyOfAudio(md5) == md5
\* handlers.py 82: parse_atc_conversation(transcription_text): md5_hash is
\* not passed and takes its default, None
ExtractionKey(md5) == "none"
\* what the transcription service may answer: a text or, for a recording
\* without speech, a blank text
UploadTexts(audio) == WhisperTexts(audio) \cup {Str1(" ")}
\* the handler has called transcribe_audio, which returned, and has not
\* called parse_atc_conversation yet
AwaitsExtraction(h) ==
    /\ h # <<>>
    /\ h[Len(h)].op = "transcribe"
    /\ h[Len(h)].ok
\* the number of uploads handled or in progress
UploadsSoFar(h) == Cardinality({i \in 1..Len(h) : h[i].op = "transcribe"})
\* handlers.py 70-87: the calls of _process_audio_file for the uploads of
\* session s1, one upload after the other
NextUpload ==
    \/ /\ proc["s1"].pc = "idle"
       /\ ~AwaitsExtraction(SeqHist)
       /\ UploadsSoFar(SeqHist) < MaxCalls
       /\ \E u \in {Upload(audio, Str1("a.mp3")) : audio \in AudioBytes} :
            TranscribeLookup("s1", u.audio, u.name)
    \/ \E text \in UploadTexts(proc["s1"].audio) : TranscribeCall("s1", TRUE, text)
    \/ TranscribeCall("s1", FALSE, None)
    \/ SaveOpen("s1")
    \/ \E n \in 1..Len(proc["s1"].wbuf) : SaveWrite("s1", n, 1)
    \/ \E copied \in BOOLEAN : TranscribeStore("s1", copied)
    \/ /\ proc["s1"].pc = "idle"
       /\ AwaitsExtraction(SeqHist)
       /\ ExtractLookup("s1", SeqHist[Len(SeqHist)].value,
                        ExtractionKey(SeqHist[Len(SeqHist)].md5))
    \/ \E response \in {Encode(GoodList), <<UnitTok("sorry", FALSE, FALSE)>>} :
            ExtractCall("s1", response)
SpecUpload == InitCache /\ [][NextUpload]_vars

\* no file of the parsed-conversation cache exists and no put to one began
NoParsedCache ==
    \A md5 \in Md5s :
        /\ ~files[CacheFile(md5, "parsed")].exists
        /\ puts[CacheFile(md5, "parsed")] = {}

\* C38 as stated: every upload whose transcription returned performs a
\* call of the model for the extraction.
EveryUploadCallsModel ==
    \A i \in 1..Len(SeqHist) : SeqHist[i].op = "extract" => SeqHist[i].ext = 1

\* C38, amended: the audio handler calls the extraction without a content
\* key.  The parsed-conversation cache is neither read nor written, and
\* every upload whose transcript is not blank performs a call of the model
\* for the extraction, a repeat upload of the same bytes whose transcript
\* came from the cache included; for a blank transcript the extraction
\* returns the empty list without a call.
UploadExtractsWithoutKey ==
    /\ NoParsedCache
    /\ \A i \in 1..Len(SeqHist) :
            SeqHist[i].op = "extract" =>
                /\ SeqHist[i].md5 = "none"
                /\ SeqHist[i - 1].op = "transcribe" /\ SeqHist[i - 1].ok
                /\ SeqHist[i].arg = SeqHist[i - 1].value
                /\ SeqHist[i].ext = (IF IsBlank(SeqHist[i].arg) THEN 0 ELSE 1)
    /\ llmCalls >= Cardinality({i \in 1..Len(SeqHist) :
                                 /\ SeqHist[i].op = "extract"
                                 /\ ~IsBlank(SeqHist[i].arg)})
\* the same bytes were uploaded twice; the second transcript came from
\* the cache, and both extractions called the model
UploadExtractsWithoutKeyWitness ==
    /\ Len(SeqHist) = 4
    /\ SeqHist[1].audio = "A" /\ SeqHist[1].ext = 1
    /\ SeqHist[3].op = "transcribe" /\ SeqHist[3].audio = "A"
    /\ SeqHist[3].ext = 0 /\ SeqHist[3].ok
    /\ SeqHist[2].ext = 1 /\ SeqHist[2].ok
    /\ SeqHist[4].op = "extract" /\ SeqHist[4].ext = 1 /\ SeqHist[4].ok
    /\ SeqHist[4].arg = SeqHist[2].arg
    /\ llmCalls = 2

\* the text of the turn begins with /
BeginsWithSlash == StartsWith(inbound.content.str, <<"/">>)

\* C39: a turn that reaches the text branches with a text that begins with
\* / and is no meta-command, no command of a registered assistant and no
\* utility trigger, a bare /assistant included, gets no reply about an
\* unknown command or a missing name: the whole text, the slash and the
\* white space at its end included, goes to the active assistant when the
\* session has one and the registry knows it, and to the fallback
\* otherwise.  The meta-command branch never answers that a name is
\* missing.
SlashTextIsRouted ==
    /\ (TextDispatched /\ BeginsWithSlash /\ IsPlainText) =>
            /\ routed.reply \in {"response", "chat"}
            /\ routed.message = inbound.content
            /\ FiredIn({"list", "switch", "direct", "search", "chart"}) = 0
            /\ IF inbound.active # None /\ Registered(registry, inbound.active)
               THEN fired[Len(fired)] = "active"
                        /\ routed.assistant = inbound.active
               ELSE fired[Len(fired)] = "fallback" /\ routed.assistant = None
    /\ (TextDispatched /\ Lower(Trimmed) = <<"/", "assistant">>) => IsPlainText
    /\ routed.reply # "please specify"
\* a bare /assistant with a blank after it went, as it came, to the
\* active assistant
SlashTextIsRoutedWitness ==
    /\ inbound.handled
    /\ inbound.content = Str(<<"/", "assistant", " ">>)
    /\ inbound.active = Str1("health")
    /\ fired = <<"active">>
    /\ routed.assistant = Str1("health")
    /\ routed.message = Str(<<"/", "assistant", " ">>)
    /\ routed.reply = "response"

\* the places of the audio and file elements of the turn
Attachments ==
    {i \in 1..Len(inbound.elements) :
        inbound.elements[i].kind \in {"audio", "file"}}
\* the turn carries several attachments
SeveralAttachments == Cardinality(Attachments) >= 2

\* C40: in a handled turn at most one attachment handler runs and the
\* attachment branch runs at most once; when the turn carries an audio or
\* a file element, the handler that runs is the one of the first such
\* element in order (the transcription pipeline for audio, the indexing
\* of documents for any other file), whether or not it succeeds, and no
\* handler runs for a later attachment: what the user sees of the
\* attachments is what the first one alone gives.
OneAttachmentHandler ==
    inbound.handled =>
        /\ Len(outcome.ran) <= 1
        /\ FiredIn({"attachment"}) <= 1
        /\ (Attachments = {}) <=> (outcome.ran = <<>>)
        /\ \A first \in Attachments :
                (\A other \in Attachments : first <= other) =>
                    /\ outcome.ran =
                         <<[index |-> first,
                            handler |-> HandlerOf(inbound.elements[first])]>>
                    /\ outcome.sent =
                         AttachmentOutcome(<<inbound.elements[first]>>).sent
                    /\ outcome.escaped =
                         AttachmentOutcome(<<inbound.elements[first]>>).escaped
\* a turn with a document and then an audio file: the document was
\* indexed and the audio was not transcribed
OneAttachmentHandlerWitness ==
    /\ inbound.handled
    /\ SeveralAttachments
    /\ inbound.elements =
         <<Element("file", FALSE, FALSE), Element("audio", TRUE, FALSE)>>
    /\ outcome.ran = <<[index |-> 1, handler |-> "document"]>>
    /\ outcome.sent = <<>>
    /\ FiredIn({"attachment"}) = 1
=============================================================================
